---------------------------- MODULE Spec2Model ----------------------------
(* A model of the AI camera pipeline of Ka/software:                       *)
(*   analytics_module.py  AnalyticsModule (centroid tracker, heatmap)       *)
(*   camera_handler.py    CameraCapture   (acquisition loop, ring buffer)   *)
(*   main.py              CameraApp, main (orchestrator, REST facade)       *)
(* Time is counted in ticks of the wall clock; OneSecond ticks make 1 s.    *)
EXTENDS Integers, Sequences, FiniteSets, TLC

VARIABLES
    \* ---- AnalyticsModule (analytics_module.py:18-33)
    enable_counting,        \* config analytics.enable_people_counting
    enable_heatmap,         \* config analytics.enable_heatmap
    heatmap,                \* [Cells -> 0..1], the float32 grid
    person_tracks,          \* track id -> [position, entry_time, last_seen]
    track_counter,
    frame_count,
    people_count_history,   \* bin (frame_count // 30) -> people count
    \* ---- the wall clock read by time.time()
    now,
    \* ---- what the last AnalyticsModule call did and returned
    call,                   \* the last call: op, detections, matching, tracks created
    update_result,          \* the value it returned, when it was update()
    stats_result,           \* the value it returned, when it was get_statistics()
    updates,                \* update() calls made so far
    ever_issued             \* every id given to a track before the last call

an_vars == <<enable_counting, enable_heatmap, heatmap, person_tracks,
             track_counter, frame_count, people_count_history, now, call,
             update_result, stats_result, updates, ever_issued>>

VARIABLES
    \* ---- CameraCapture (camera_handler.py:26-39)
    rotation,               \* config camera.rotation
    cap,                    \* the cv2.VideoCapture: none, closed, open, released
    frame_buffer,           \* deque(maxlen = frame_buffer_size)
    cam_current_frame,      \* CameraCapture.current_frame
    is_running,
    cam_frame_count,        \* CameraCapture.frame_count
    capture_pc,             \* where the capture thread is in _capture_loop
    capture_frame,          \* its local variable frame
    reads,                  \* frames the device has delivered
    stored                  \* every frame appended to frame_buffer, in order

cam_vars == <<rotation, cap, frame_buffer, cam_current_frame, is_running,
              cam_frame_count, capture_pc, capture_frame, reads, stored>>

VARIABLES
    \* ---- main() and CameraApp (main.py:47-70, 278-295)
    init_db,                \* command line flag --init-db
    api_only,               \* command line flag --api-only
    main_pc,                \* where the main thread is
    init_error,             \* the fatal error initialize() logged, or "none"
    model_loaded,           \* Detector.model is not None
    running,
    current_frame,          \* CameraApp.current_frame, the published frame
    fps_counter,
    last_fps_time,
    api_started,            \* the Flask thread was started
    frame,                  \* the local variable frame of run()
    status_response,        \* what the /api/status request just served answered
    fps_call,               \* the /api/status request followed step by step
    exit_code               \* the exit status of the process, once it ended

app_state == <<init_db, api_only, main_pc, init_error, model_loaded, running,
              current_frame, fps_counter, last_fps_time, api_started, frame,
              exit_code>>

app_vars == <<app_state, status_response, fps_call>>

VARIABLES
    \* ---- SecurityModule (security_module.py:22-41), as CameraApp makes it
    enable_face_recognition, \* config security.enable_face_recognition
    enable_alerts,          \* config security.enable_alerts
    alert_email,            \* config security.alert_email is not empty
    slack_webhook,          \* config security.alert_slack_webhook is not empty
    face_recognition,       \* the face_recognition library was imported
    known_faces,            \* names of the known faces loaded from the database
    \* ---- MotionDetector (detector.py:122-125)
    motion_threshold,       \* config security.motion_threshold
    prev_frame,             \* the frame of the call before, None at first
    \* ---- the events table of the database
    events,                 \* rows written by log_event
    \* ---- what the process_frame call of the cycle saw and did
    cycle,
    \* ---- process_frame followed stage by stage: what its frame shows, its
    \* local variable person_detections, and the value of fps_counter it has
    \* loaded to add 1 to
    view

sec_config == <<enable_face_recognition, enable_alerts, alert_email,
                slack_webhook, face_recognition, known_faces, motion_threshold>>

sec_vars == <<sec_config, prev_frame, events, cycle, view>>

vars == <<an_vars, cam_vars, app_vars, sec_vars>>

-----------------------------------------------------------------------------
(* Bounds of the model *)

MaxDets == 1            \* frames of up to MaxDets people come in every combination
MaxUpdates == 2         \* update() calls followed
MaxTime == 1            \* last tick of the clock
OneSecond == 1          \* ticks per second
MaxReads == 3           \* frames the device delivers
MaxProcessed == 2       \* frames the processing loop takes
MaxUptime == 2          \* last tick of the clock while the application runs
NPixels == 2            \* pixels of the frames detect_motion is given alone
MaxCycles == 3          \* cycles of the processing loop followed stage by stage

(* Configuration values (config.py, DEFAULT_CONFIG), the grid and the      *)
(* buffer scaled down                                                       *)

HeatRows == 12          \* analytics.heatmap_resolution[0]
HeatCols == 2           \* analytics.heatmap_resolution[1]
FrameBufferSize == 2    \* camera.frame_buffer_size

FrameW == 1920          \* camera.resolution[0]
FrameH == 1080          \* camera.resolution[1]

(* Program constants *)

EscalationThreshold == 10   \* process_frame: motion_mag > 10
DefaultMotionThreshold == 5 \* security.motion_threshold
DiffThreshold == 30     \* detect_motion: cv2.threshold(diff, 30, 255, ...)
White == 255            \* detect_motion: the value threshold() writes
MaxDistance == 50       \* matching threshold of _update_tracks
BlobRadius == 10        \* radius of the cv2.circle deposit
HistoryBin == 30        \* frames per people_count_history bin

-----------------------------------------------------------------------------
(* Inputs: bounding boxes of person detections, as extract_detections      *)
(* yields them (integers inside the frame).                                 *)

Box(x1, y1, x2, y2) == [x1 |-> x1, y1 |-> y1, x2 |-> x2, y2 |-> y2]

Boxes == { Box(90, 80, 110, 120),      \* centroid (100,100)
           Box(95, 92, 116, 113),      \* centroid (105,102), odd sums
           Box(120, 130, 140, 150),    \* centroid (130,140), 50 from (100,100)
           Box(490, 480, 510, 520) }   \* centroid (500,500)

RECURSIVE SeqsUpTo(_, _)
SeqsUpTo(S, n) ==
    IF n = 0 THEN { <<>> }
    ELSE LET shorter == SeqsUpTo(S, n - 1)
         IN  shorter \cup { Append(s, b) : s \in shorter, b \in S }

\* frames of two people: apart, on one spot, close together
CrowdedFrames ==
    { << Box(90, 80, 110, 120), Box(490, 480, 510, 520) >>,
      << Box(90, 80, 110, 120), Box(90, 80, 110, 120) >>,
      << Box(90, 80, 110, 120), Box(95, 92, 116, 113) >>,
      << Box(120, 130, 140, 150), Box(95, 92, 116, 113) >> }

DetectionLists == SeqsUpTo(Boxes, MaxDets) \cup CrowdedFrames

-----------------------------------------------------------------------------
(* AnalyticsModule._update_tracks *)

Dist2(p, q) == (p[1] - q[1]) * (p[1] - q[1]) + (p[2] - q[2]) * (p[2] - q[2])

\* lines 83-89: current_centroids, keyed 0..n-1 in input order
CurrentCentroids(detections) ==
    [idx \in 0 .. Len(detections) - 1 |->
        LET det == detections[idx + 1]
        IN  << (det.x1 + det.x2) \div 2, (det.y1 + det.y2) \div 2 >>]

\* line 102: dist < closest_dist and dist < 50, on squared distances
\* (closest_idx = -1 stands for closest_dist = inf)
CloserAndInRange_Within(d2, closest_d2, closest_idx) ==
    (closest_idx = -1 \/ d2 < closest_d2) /\ d2 <= MaxDistance * MaxDistance

CloserAndInRange(d2, closest_d2, closest_idx) ==
    (closest_idx = -1 \/ d2 < closest_d2) /\ d2 < MaxDistance * MaxDistance

\* line 100: only centroids no earlier track has taken are candidates
IsCandidate_IgnoreMatched(idx, matched_tracks) == TRUE

IsCandidate(idx, matched_tracks) == idx \notin matched_tracks

\* lines 96-104: the scan of one track over the centroids, in key order
RECURSIVE ClosestScan(_, _, _, _, _, _)
ClosestScan(idx, centroids, old_pos, matched_tracks, closest_d2, closest_idx) ==
    IF idx \notin DOMAIN centroids
    THEN closest_idx
    ELSE LET d2 == Dist2(centroids[idx], old_pos)
         IN  IF IsCandidate(idx, matched_tracks)
                /\ CloserAndInRange(d2, closest_d2, closest_idx)
             THEN ClosestScan(idx + 1, centroids, old_pos, matched_tracks, d2, idx)
             ELSE ClosestScan(idx + 1, centroids, old_pos, matched_tracks,
                              closest_d2, closest_idx)

ClosestIdx(centroids, old_pos, matched_tracks) ==
    ClosestScan(0, centroids, old_pos, matched_tracks, 0, -1)

\* the track the loop of line 94 takes next
Min_Newest(S) == CHOOSE m \in S : \A n \in S : m >= n

Min(S) == CHOOSE m \in S : \A n \in S : m <= n

\* lines 110-112: a track that found no centroid is deleted
LoseTrack_Keep(tracks, track_id) == tracks

LoseTrack(tracks, track_id) ==
    [id \in DOMAIN tracks \ {track_id} |-> tracks[id]]

\* lines 106-109: a matched track moves; its id and entry_time stay
MoveTrack_Reenter(track, pos, t) ==
    [position |-> pos, entry_time |-> t, last_seen |-> t]

MoveTrack(track, pos, t) ==
    [track EXCEPT !.position = pos, !.last_seen = t]

\* lines 106-112, one track: closest_idx is the centroid its scan found.
\* st = [tracks, matched_tracks, assigned]
MatchOne(st, track_id, closest_idx, centroids, t) ==
    IF closest_idx # -1
    THEN [tracks |-> [st.tracks EXCEPT ![track_id] =
                         MoveTrack(@, centroids[closest_idx], t)],
          matched_tracks |-> st.matched_tracks \cup {closest_idx},
          assigned |-> st.assigned \cup { <<track_id, closest_idx>> }]
    ELSE [st EXCEPT !.tracks = LoseTrack(st.tracks, track_id)]

\* lines 94-112: the loop over list(self.person_tracks.keys()); a dict keeps
\* insertion order and ids are inserted in increasing order, so the loop
\* runs in ascending id
RECURSIVE MatchLoop(_, _, _, _)
MatchLoop(todo, st, centroids, t) ==
    IF todo = {}
    THEN st
    ELSE MatchLoop(todo \ {Min(todo)},
                   MatchOne(st, Min(todo),
                            ClosestIdx(centroids, st.tracks[Min(todo)].position,
                                       st.matched_tracks),
                            centroids, t),
                   centroids, t)

\* lines 117-122: one new track under the next counter value
NewTrack(pos, t) == [position |-> pos, entry_time |-> t, last_seen |-> t]

NextTrackId_Same(counter) == counter

NextTrackId(counter) == counter + 1

\* st = [tracks, counter, assigned, created]
AddTrack(st, idx, id, pos, t) ==
    [st EXCEPT !.tracks = [k \in DOMAIN st.tracks \cup {id} |->
                              IF k = id THEN NewTrack(pos, t) ELSE st.tracks[k]],
               !.counter = id,
               !.created = Append(st.created, <<idx, id>>)]

\* lines 115-122: the loop over the centroids left unmatched, in key order
RECURSIVE NewLoop(_, _, _, _, _)
NewLoop(idx, st, centroids, matched_tracks, t) ==
    IF idx \notin DOMAIN centroids
    THEN st
    ELSE IF idx \notin matched_tracks
         THEN NewLoop(idx + 1,
                      AddTrack(st, idx, NextTrackId(st.counter), centroids[idx], t),
                      centroids, matched_tracks, t)
         ELSE NewLoop(idx + 1, st, centroids, matched_tracks, t)

\* lines 114-122, entered with the outcome m of the matching loop
NewTracks(m, counter, centroids, t) ==
    NewLoop(0, [tracks |-> m.tracks, counter |-> counter,
                assigned |-> m.assigned, created |-> <<>>],
            centroids, m.matched_tracks, t)

\* lines 91-122, entered with the centroids of the detections
TrackCentroids(tracks, counter, centroids, t) ==
    NewTracks(MatchLoop(DOMAIN tracks,
                        [tracks |-> tracks, matched_tracks |-> {}, assigned |-> {}],
                        centroids, t),
              counter, centroids, t)

\* lines 79-125: [tracks, counter, assigned, created]; assigned holds the
\* pairs <<track id, centroid key>> matched, created the pairs
\* <<centroid key, new track id>> in creation order
UpdateTracks(tracks, counter, detections, t) ==
    TrackCentroids(tracks, counter, CurrentCentroids(detections), t)

-----------------------------------------------------------------------------
(* AnalyticsModule._update_heatmap *)

Cells == (0 .. HeatRows - 1) \X (0 .. HeatCols - 1)      \* <<row, column>>

ZeroHeatmap == [cell \in Cells |-> 0]

\* line 74: cv2.circle(heatmap, (hm_x, hm_y), 10, 1.0, -1) writes the colour
\* 1.0 into the disc around column hm_x, row hm_y, clipped to the grid
InBlob(cell, hm_x, hm_y) ==
    (cell[2] - hm_x) * (cell[2] - hm_x) + (cell[1] - hm_y) * (cell[1] - hm_y)
        <= BlobRadius * BlobRadius

Stamp_Toggle(old, inside) == IF inside THEN 1 - old ELSE old

Stamp(old, inside) == IF inside THEN 1 ELSE old

\* lines 64-74, one detection; map_h, map_w = self.heatmap_resolution
Deposit_Accumulate(hm, det, frame_w, frame_h) ==
    LET map_h == HeatRows
        map_w == HeatCols
        center_x == (det.x1 + det.x2) \div 2
        center_y == (det.y1 + det.y2) \div 2
        hm_x == (center_x * map_w) \div frame_w
        hm_y == (center_y * map_h) \div frame_h
    IN  [cell \in Cells |->
            IF InBlob(cell, hm_x, hm_y) THEN hm[cell] + 1 ELSE hm[cell]]

Deposit(hm, det, frame_w, frame_h) ==
    LET map_h == HeatRows
        map_w == HeatCols
        center_x == (det.x1 + det.x2) \div 2
        center_y == (det.y1 + det.y2) \div 2
        hm_x == (center_x * map_w) \div frame_w
        hm_y == (center_y * map_h) \div frame_h
    IN  [cell \in Cells |-> Stamp(hm[cell], InBlob(cell, hm_x, hm_y))]

\* lines 57-77: the loop over the detections
RECURSIVE UpdateHeatmap(_, _, _, _)
UpdateHeatmap(hm, detections, frame_w, frame_h) ==
    IF detections = <<>>
    THEN hm
    ELSE UpdateHeatmap(Deposit(hm, Head(detections), frame_w, frame_h),
                       Tail(detections), frame_w, frame_h)

\* line 184
ClearedHeatmap(hm) == ZeroHeatmap

-----------------------------------------------------------------------------
(* AnalyticsModule._calculate_avg_dwell_time; a mean is kept as the        *)
(* fraction [num, den] that np.mean divides out.                            *)

Fraction(num, den) == [num |-> num, den |-> den]

Zero == Fraction(0, 1)

RECURSIVE SumOver(_, _)
SumOver(f, S) ==
    IF S = {} THEN 0
    ELSE LET k == CHOOSE k \in S : TRUE
         IN  f[k] + SumOver(f, S \ {k})

\* line 137
DwellTime_SinceSeen(track, current_time) == current_time - track.last_seen

DwellTime(track, current_time) == current_time - track.entry_time

\* lines 127-144
CalculateAvgDwellTime(tracks, current_time) ==
    IF DOMAIN tracks = {}
    THEN Zero
    ELSE LET dwell_times == [id \in DOMAIN tracks |->
                                DwellTime(tracks[id], current_time)]
         IN  Fraction(SumOver(dwell_times, DOMAIN tracks),
                      Cardinality(DOMAIN tracks))

-----------------------------------------------------------------------------
(* State after AnalyticsModule.__init__ *)

NoTracks == [id \in {} |-> NewTrack(<<0, 0>>, 0)]

NoResponse == [status |-> 0]

NoCall == [op |-> "init", detections |-> <<>>, assigned |-> {}, created |-> <<>>,
           response |-> NoResponse]

NoResult == [people_count |-> 0, active_tracks |-> 0, average_dwell_time |-> Zero]

NoStats == [total_frames |-> 0, average_people_count |-> Zero,
            peak_people_count |-> 0, current_tracks |-> 0,
            avg_dwell_time |-> Zero, total_people_passed |-> 0]

AnalyticsNew ==
    /\ heatmap = ZeroHeatmap
    /\ person_tracks = NoTracks
    /\ track_counter = 0
    /\ frame_count = 0
    /\ people_count_history = [bin \in {} |-> 0]
    /\ call = NoCall
    /\ update_result = NoResult
    /\ stats_result = NoStats
    /\ updates = 0
    /\ ever_issued = {}

-----------------------------------------------------------------------------
(* AnalyticsModule.update (lines 35-55) *)

Ids(created) == { created[i][2] : i \in 1 .. Len(created) }

\* the ids the calls before this one gave out
Remember == ever_issued' = ever_issued \cup Ids(call.created)

Update(person_detections, frame_w, frame_h) ==
    \E u \in { IF enable_counting
                THEN UpdateTracks(person_tracks, track_counter, person_detections, now)
                ELSE [tracks |-> person_tracks, counter |-> track_counter,
                      assigned |-> {}, created |-> <<>>] } :
    LET current_count == Len(person_detections)
        bin == (frame_count + 1) \div HistoryBin
    IN  /\ frame_count' = frame_count + 1
        /\ people_count_history' =
              [b \in DOMAIN people_count_history \cup {bin} |->
                  IF b = bin THEN current_count ELSE people_count_history[b]]
        /\ heatmap' = IF enable_heatmap
                      THEN UpdateHeatmap(heatmap, person_detections, frame_w, frame_h)
                      ELSE heatmap
        /\ person_tracks' = u.tracks
        /\ track_counter' = u.counter
        /\ update_result' =
              [people_count |-> current_count,
               active_tracks |-> Cardinality(DOMAIN u.tracks),
               average_dwell_time |-> CalculateAvgDwellTime(u.tracks, now)]
        /\ call' = [op |-> "update", detections |-> person_detections,
                    assigned |-> u.assigned, created |-> u.created,
                    response |-> NoResponse]
        /\ stats_result' = NoStats
        /\ updates' = updates + 1
        /\ Remember
        /\ UNCHANGED <<enable_counting, enable_heatmap>>

\* lines 162-180
RECURSIVE MaxOver(_, _)
MaxOver(f, S) ==
    IF S = {} THEN 0
    ELSE LET k == CHOOSE k \in S : TRUE
             rest == MaxOver(f, S \ {k})
         IN  IF S = {k} \/ f[k] >= rest THEN f[k] ELSE rest

GetStatistics_SinceStart ==
    /\ stats_result' =
          [total_frames |-> updates,
           average_people_count |-> Zero,
           peak_people_count |-> 0,
           current_tracks |-> Cardinality(DOMAIN person_tracks),
           avg_dwell_time |-> CalculateAvgDwellTime(person_tracks, now),
           total_people_passed |-> track_counter]
    /\ call' = [NoCall EXCEPT !.op = "get_statistics"]
    /\ update_result' = NoResult
    /\ Remember
    /\ UNCHANGED <<enable_counting, enable_heatmap, heatmap, person_tracks,
                   track_counter, frame_count, people_count_history, updates>>

GetStatistics ==
    /\ stats_result' =
          [total_frames |-> frame_count,
           average_people_count |->
              IF DOMAIN people_count_history = {} THEN Zero
              ELSE Fraction(SumOver(people_count_history, DOMAIN people_count_history),
                            Cardinality(DOMAIN people_count_history)),
           peak_people_count |-> MaxOver(people_count_history,
                                         DOMAIN people_count_history),
           current_tracks |-> Cardinality(DOMAIN person_tracks),
           avg_dwell_time |-> CalculateAvgDwellTime(person_tracks, now),
           total_people_passed |-> track_counter]
    /\ call' = [NoCall EXCEPT !.op = "get_statistics"]
    /\ update_result' = NoResult
    /\ Remember
    /\ UNCHANGED <<enable_counting, enable_heatmap, heatmap, person_tracks,
                   track_counter, frame_count, people_count_history, updates>>

\* get_heatmap_visualization, line 151: hm.max() > 0
HasHeat_Never(hm) == FALSE

HasHeat(hm) == \E cell \in Cells : hm[cell] > 0

\* AnalyticsModule.get_heatmap_visualization (lines 146-160): a heatmap
\* with a positive maximum is scaled to 0..255, cut to whole numbers and
\* coloured; an all-zero heatmap stays a float array, which applyColorMap
\* refuses, and the except clause answers None
ColorMap(hm, max) ==
    [cell \in Cells |-> <<"jet", (hm[cell] * White) \div max>>]

\* hm.max()
HeatMax(hm) ==
    LET values == { hm[cell] : cell \in Cells }
    IN  CHOOSE m \in values : \A v \in values : v <= m

GetHeatmapVisualization(hm) ==
    IF HasHeat(hm) THEN ColorMap(hm, HeatMax(hm)) ELSE <<>>

\* the /api/heatmap route (main.py, lines 96-102)
HeatmapRoute(hm) ==
    LET vis == GetHeatmapVisualization(hm)
    IN  IF vis # <<>>
        THEN [status |-> 200, mimetype |-> "image/jpeg", image |-> vis]
        ELSE [status |-> 404]

GetHeatmap ==
    /\ call' = [NoCall EXCEPT !.op = "get_heatmap",
                              !.response = HeatmapRoute(heatmap)]
    /\ update_result' = NoResult
    /\ stats_result' = NoStats
    /\ Remember
    /\ UNCHANGED <<enable_counting, enable_heatmap, heatmap, person_tracks,
                   track_counter, frame_count, people_count_history, updates>>

\* lines 182-185
ResetHeatmap_AndStatistics ==
    /\ heatmap' = ClearedHeatmap(heatmap)
    /\ people_count_history' = [bin \in {} |-> 0]
    /\ person_tracks' = NoTracks
    /\ frame_count' = 0
    /\ call' = [NoCall EXCEPT !.op = "reset_heatmap"]
    /\ update_result' = NoResult
    /\ stats_result' = NoStats
    /\ Remember
    /\ UNCHANGED <<enable_counting, enable_heatmap, track_counter, updates>>

ResetHeatmap ==
    /\ heatmap' = ClearedHeatmap(heatmap)
    /\ call' = [NoCall EXCEPT !.op = "reset_heatmap"]
    /\ update_result' = NoResult
    /\ stats_result' = NoStats
    /\ Remember
    /\ UNCHANGED <<enable_counting, enable_heatmap, person_tracks,
                   track_counter, frame_count, people_count_history, updates>>

\* lines 187-193
ResetStatistics ==
    /\ people_count_history' = [bin \in {} |-> 0]
    /\ person_tracks' = NoTracks
    /\ frame_count' = 0
    /\ track_counter' = 0
    /\ call' = [NoCall EXCEPT !.op = "reset_statistics"]
    /\ update_result' = NoResult
    /\ stats_result' = NoStats
    /\ Remember
    /\ UNCHANGED <<enable_counting, enable_heatmap, heatmap, updates>>

-----------------------------------------------------------------------------
(* CameraCapture (camera_handler.py).  A frame is an array: it is known by  *)
(* the number of the device read that delivered its picture and by its      *)
(* shape; shared tells that a reference to the array has been stored where  *)
(* other threads read it.                                                   *)

Frame(seq, w, h) == [seq |-> seq, w |-> w, h |-> h, shared |-> FALSE]

NoFrame == Frame(0, 0, 0)                                \* None

DeviceFrame(seq) == Frame(seq, FrameW, FrameH)

\* lines 72-87: a flip keeps the shape, a quarter turn swaps width and height
ApplyTransforms(f, rot) ==
    IF rot = 90 \/ rot = 270 THEN [f EXCEPT !.w = f.h, !.h = f.w] ELSE f

\* self.current_frame = frame: the array can now be reached by other threads
Share(f) == [f EXCEPT !.shared = TRUE]

\* deque(maxlen = n).append: a full deque drops its oldest item
DequeAppend_DropNewest(buffer, f) ==
    IF Len(buffer) >= FrameBufferSize THEN buffer ELSE Append(buffer, f)

DequeAppend(buffer, f) ==
    IF FrameBufferSize = 0 THEN <<>>
    ELSE IF Len(buffer) = FrameBufferSize THEN Append(Tail(buffer), f)
    ELSE Append(buffer, f)

\* state after CameraCapture.__init__ (lines 26-39)
CameraNew ==
    /\ cap = "none"
    /\ frame_buffer = <<>>
    /\ cam_current_frame = NoFrame
    /\ is_running = FALSE
    /\ cam_frame_count = 0
    /\ capture_pc = "idle"
    /\ capture_frame = NoFrame
    /\ reads = 0
    /\ stored = <<>>

ReadOutcomes == {"frame", "no_frame", "raise"}

\* CameraCapture.initialize (lines 41-70); error is what the except clause
\* logs: "open" (line 47), "read" (line 58) or "none" (returns True)
CameraInitialize(error) ==
    /\ \/ /\ error = "open"
          /\ cap' = "closed"
          /\ UNCHANGED <<reads, cam_current_frame, frame_buffer, stored>>
       \/ /\ error = "read"
          /\ cap' = "open"
          /\ UNCHANGED <<reads, cam_current_frame, frame_buffer, stored>>
       \/ /\ error = "none"
          /\ reads < MaxReads
          /\ cap' = "open"
          /\ reads' = reads + 1
          /\ LET f == Share(ApplyTransforms(DeviceFrame(reads + 1), rotation))
             IN  /\ cam_current_frame' = f
                 /\ frame_buffer' = DequeAppend(frame_buffer, f)
                 /\ stored' = Append(stored, f)
    /\ UNCHANGED <<rotation, is_running, cam_frame_count, capture_pc, capture_frame>>

\* CameraCapture.start_capture (lines 89-98)
StartCapture ==
    /\ IF is_running
       THEN UNCHANGED <<is_running, capture_pc>>
       ELSE is_running' = TRUE /\ capture_pc' = "while"
    /\ UNCHANGED <<rotation, cap, frame_buffer, cam_current_frame,
                   cam_frame_count, capture_frame, reads, stored>>

\* _capture_loop, line 103: while self.is_running
LoopTest_IgnoreFlag(flag) == "read"

LoopTest(flag) == IF flag THEN "read" ELSE "done"

CaptureWhile ==
    /\ capture_pc = "while"
    /\ capture_pc' = LoopTest(is_running)
    /\ UNCHANGED <<rotation, cap, frame_buffer, cam_current_frame, is_running,
                   cam_frame_count, capture_frame, reads, stored>>

\* lines 106-108: a read that delivered nothing is logged and skipped
AfterRead_FailIsFatal(ret, next) == IF ret THEN next ELSE "done"

AfterRead(ret, next) == IF ret THEN next ELSE "while"

\* lines 104-108 and 125-127: ret, frame = self.cap.read().  A released
\* device delivers nothing (False, None); an exception ends the loop in the
\* except clause (capture_pc "failed"), which clears is_running.
CaptureRead ==
    /\ capture_pc = "read"
    /\ \E outcome \in ReadOutcomes :
          \/ /\ outcome = "frame"
             /\ cap = "open"
             /\ reads < MaxReads
             /\ reads' = reads + 1
             /\ capture_frame' = DeviceFrame(reads + 1)
             /\ capture_pc' = AfterRead(TRUE, "publish")
             /\ UNCHANGED is_running
          \/ /\ outcome = "no_frame"
             /\ capture_pc' = AfterRead(FALSE, "publish")
             /\ UNCHANGED <<reads, capture_frame, is_running>>
          \/ /\ outcome = "raise"
             /\ cap = "open"
             /\ is_running' = FALSE
             /\ capture_pc' = "failed"
             /\ UNCHANGED <<reads, capture_frame>>
    /\ UNCHANGED <<rotation, cap, frame_buffer, cam_current_frame,
                   cam_frame_count, stored>>

\* lines 110-111: the transformed frame becomes the current frame
CapturePublish ==
    /\ capture_pc = "publish"
    /\ capture_frame' = Share(ApplyTransforms(capture_frame, rotation))
    /\ cam_current_frame' = capture_frame'
    /\ capture_pc' = "append"
    /\ UNCHANGED <<rotation, cap, frame_buffer, is_running, cam_frame_count,
                   reads, stored>>

\* lines 112-123: append to the ring buffer, count, sleep
CaptureAppend ==
    /\ capture_pc = "append"
    /\ frame_buffer' = DequeAppend(frame_buffer, capture_frame)
    /\ stored' = Append(stored, capture_frame)
    /\ cam_frame_count' = cam_frame_count + 1
    /\ capture_pc' = "while"
    /\ UNCHANGED <<rotation, cap, cam_current_frame, is_running, capture_frame,
                   reads>>

\* CameraCapture.get_frame_copy (lines 133-137): None, or a new array with
\* the current frame's content, which only the caller holds
GetFrameCopy_NoCopy(cur) == cur

GetFrameCopy(cur) == IF cur = NoFrame THEN NoFrame ELSE [cur EXCEPT !.shared = FALSE]

\* CameraCapture.release, line 145: clear the flag
ReleaseStop ==
    /\ is_running' = FALSE
    /\ UNCHANGED <<rotation, cap, frame_buffer, cam_current_frame,
                   cam_frame_count, capture_pc, capture_frame, reads, stored>>

\* lines 148-150, once the join has returned (the thread ended, or 2 s
\* went by with the thread still in its loop): release the device
ReleaseDevice ==
    /\ cap' = IF cap = "none" THEN "none" ELSE "released"
    /\ UNCHANGED <<rotation, frame_buffer, cam_current_frame, is_running,
                   cam_frame_count, capture_pc, capture_frame, reads, stored>>

CaptureThread == CaptureWhile \/ CaptureRead \/ CapturePublish \/ CaptureAppend

-----------------------------------------------------------------------------
(* MotionDetector (detector.py) and SecurityModule (security_module.py).   *)
(* Magnitudes are whole percents.  What the frame shows comes in as a      *)
(* scene: the people the detector finds, the percent of pixels that differ  *)
(* from the picture before, and the faces the face library locates, each   *)
(* with the person it belongs to.                                           *)

Scene(persons, change, located) ==
    [persons |-> persons, change |-> change, located |-> located]

Face(person, location) == [person |-> person, location |-> location]

Stranger == Face("stranger", 1)

Alice == Face("alice", 2)

\* MotionDetector.detect_motion (lines 127-153): the first call stores the
\* frame and answers (False, 0.0); later calls compare with the stored
\* frame, and the same picture differs in no pixel
DetectMotion(prev, f, change) ==
    IF prev = NoFrame
    THEN [detected |-> FALSE, magnitude |-> 0]
    ELSE LET motion_magnitude == IF prev.seq = f.seq THEN 0 ELSE change
         IN  [detected |-> motion_magnitude > motion_threshold,
              magnitude |-> motion_magnitude]

\* security_module.py, lines 1-10: numpy is not among the imports, so np in
\* _recognize_face is an undefined name
NumpyImported == FALSE

\* SecurityModule._recognize_face (lines 93-110): without known faces the
\* answer is "Unknown"; with known faces np.argmin raises NameError, which
\* the except clause turns into "Unknown" as well
RecognizeFace(face) ==
    IF known_faces = {} THEN "Unknown"
    ELSE IF ~NumpyImported THEN "Unknown"
    ELSE IF face.person \in known_faces THEN face.person
    ELSE "Unknown"

\* SecurityModule.detect_faces (lines 55-91)
DetectFaces(located) ==
    IF ~face_recognition THEN <<>>
    ELSE [i \in 1 .. Len(located) |->
            [location |-> located[i].location,
             person |-> located[i].person,
             name |-> RecognizeFace(located[i]),
             is_known |-> RecognizeFace(located[i]) # "Unknown"]]

\* the alert data process_frame builds (lines 163-168, 177-182), with the
\* defaults generate_alert reads for what an alert does not carry
MotionAlert_NoCount(motion_mag, person_count) ==
    [type |-> "motion_detected", severity |-> "medium",
     motion_magnitude |-> motion_mag, person_count |-> 0,
     name |-> "", location |-> 0]

MotionAlert(motion_mag, person_count) ==
    [type |-> "motion_detected", severity |-> "medium",
     motion_magnitude |-> motion_mag, person_count |-> person_count,
     name |-> "", location |-> 0]

FaceAlert(face) ==
    [type |-> "unknown_face", severity |-> "critical",
     motion_magnitude |-> 0, person_count |-> 0,
     name |-> face.name, location |-> face.location]

NoAlerts == [alerts |-> <<>>, sent |-> <<>>, failed |-> {}]

Sent(to, alert) == [to |-> to, alert |-> alert]

\* the notifiers generate_alert sends to: a send can fail only where one is
\* made
Notifiers ==
    (IF alert_email THEN {"email"} ELSE {})
    \cup (IF slack_webhook THEN {"slack"} ELSE {})

NotSent == [sent |-> <<>>, failed |-> {}, raised |-> FALSE]

\* SecurityModule._send_email_alert (lines 145-161) and _send_slack_alert
\* (lines 163-184) while the sends of the notifiers in failing fail: each
\* catches what its send raises (a webhook answer other than 200 is only
\* logged), so nothing is raised into generate_alert
SendAlert_Raises(to, alert, failing) ==
    [sent |-> << Sent(to, alert) >>,
     failed |-> {to} \cap failing,
     raised |-> to \in failing]

SendAlert(to, alert, failing) ==
    [sent |-> << Sent(to, alert) >>,
     failed |-> {to} \cap failing,
     raised |-> FALSE]

\* SecurityModule.generate_alert, lines 123-143: the database (CameraApp
\* always gives one), then the notifiers that are configured; an exception
\* raised in between would end the call in its except clause
Forward_NotifiedOnly(alert, failing) ==
    [sent |-> (IF alert_email \/ slack_webhook THEN <<>>
               ELSE << Sent("database", alert) >>)
              \o (IF alert_email THEN << Sent("email", alert) >> ELSE <<>>)
              \o (IF slack_webhook THEN << Sent("slack", alert) >> ELSE <<>>),
     failed |-> {}]

Forward(alert, failing) ==
    LET email == IF alert_email THEN SendAlert("email", alert, failing)
                 ELSE NotSent
        slack == IF slack_webhook /\ ~email.raised
                 THEN SendAlert("slack", alert, failing)
                 ELSE NotSent
    IN  [sent |-> << Sent("database", alert) >> \o email.sent \o slack.sent,
         failed |-> email.failed \cup slack.failed]

\* SecurityModule.generate_alert (lines 112-143): nothing when alerts are
\* switched off
GenerateAlert(out, alert, failing) ==
    IF ~enable_alerts THEN out
    ELSE LET forwarded == Forward(alert, failing)
         IN  [alerts |-> Append(out.alerts, alert),
              sent |-> out.sent \o forwarded.sent,
              failed |-> out.failed \cup forwarded.failed]

\* process_frame, line 161
Escalates_IgnoreDetected(motion) == motion.magnitude > EscalationThreshold

Escalates(motion) == motion.detected /\ motion.magnitude > EscalationThreshold

\* process_frame, lines 174-183
RECURSIVE UnknownFaceLoop(_, _, _, _)
UnknownFaceLoop(out, faces, i, failing) ==
    IF i > Len(faces) THEN out
    ELSE UnknownFaceLoop(IF ~faces[i].is_known
                         THEN GenerateAlert(out, FaceAlert(faces[i]), failing)
                         ELSE out,
                         faces, i + 1, failing)

\* process_frame, lines 160-183: [faces, alerts, sent, failed]
SecurityChecks(motion, person_detections, located, failing) ==
    LET after_motion ==
            IF Escalates(motion)
            THEN GenerateAlert(NoAlerts,
                               MotionAlert(motion.magnitude, Len(person_detections)),
                               failing)
            ELSE NoAlerts
        faces == IF face_recognition /\ Len(person_detections) > 0
                 THEN DetectFaces(located)
                 ELSE <<>>
        out == UnknownFaceLoop(after_motion, faces, 1, failing)
    IN  [faces |-> faces, alerts |-> out.alerts, sent |-> out.sent,
         failed |-> out.failed]

NoMotion == [detected |-> FALSE, magnitude |-> 0]

NoView == [persons |-> <<>>, change |-> 0, located |-> <<>>,
           inference |-> "none", person_detections |-> <<>>, loaded |-> 0]

NoCycle == [op |-> "none", motion |-> NoMotion, person_count |-> 0,
            faces |-> <<>>, alerts |-> <<>>, sent |-> <<>>, failed |-> {}]

\* state after MotionDetector.__init__ and SecurityModule.__init__, and an
\* empty events table
SecurityNew ==
    /\ prev_frame = NoFrame
    /\ events = 0
    /\ cycle = NoCycle
    /\ view = NoView

\* rows written to the events table
Logged(sent) == Cardinality({ i \in 1 .. Len(sent) : sent[i].to = "database" })

-----------------------------------------------------------------------------
(* CameraApp and main (main.py) *)

\* CameraApp.get_fps (lines 121-129): [fps, counter, last]
WindowOver_AtLeast(elapsed) == elapsed >= OneSecond

WindowOver(elapsed) == elapsed > OneSecond

GetFps(counter, last, t) ==
    IF WindowOver(t - last)
    THEN [fps |-> Fraction(counter, t - last), counter |-> 0, last |-> t]
    ELSE [fps |-> Zero, counter |-> counter, last |-> last]

NoStatus == [status |-> "none", frames_processed |-> 0, fps |-> Zero]

\* no request is being served
NoFpsCall == [pc |-> "idle", status |-> "none", frames_processed |-> 0,
              elapsed |-> 0, fps |-> Zero]

\* what the camera of the application gets to see: an empty room, or a
\* stranger walking in
AppScenes ==
    { Scene(<<>>, 0, <<>>),
      Scene(<< Box(90, 80, 110, 120) >>, 12, << Stranger >>) }

\* state after CameraApp.__init__ (lines 47-70)
AppNew ==
    /\ main_pc = "main"
    /\ init_error = "none"
    /\ model_loaded = FALSE
    /\ running = FALSE
    /\ current_frame = NoFrame
    /\ fps_counter = 0
    /\ last_fps_time = now
    /\ api_started = FALSE
    /\ frame = NoFrame
    /\ status_response = NoStatus
    /\ fps_call = NoFpsCall
    /\ exit_code = <<>>

\* main, lines 278-295: --init-db only creates the database and returns;
\* otherwise the CameraApp is made (line 66 reads the clock) and run
Main ==
    /\ main_pc = "main"
    /\ main_pc' = IF init_db THEN "return" ELSE "initialize"
    /\ last_fps_time' = IF init_db THEN last_fps_time ELSE now
    /\ UNCHANGED <<init_db, api_only, init_error, model_loaded, running,
                   current_frame, fps_counter, api_started,
                   frame, exit_code>>
    /\ status_response' = NoStatus
    /\ UNCHANGED fps_call
    /\ UNCHANGED sec_vars
    /\ UNCHANGED <<an_vars, cam_vars>>

\* run, lines 205-207: go on to next when initialize() returned True
AfterInitialize_GoOn(initialized, next) == next

AfterInitialize(initialized, next) == IF initialized THEN next ELSE "return"

\* CameraApp.initialize, lines 133-139, and run, lines 205-207
InitializeCamera ==
    /\ main_pc = "initialize"
    /\ IF api_only
       THEN /\ main_pc' = "load_model"
            /\ UNCHANGED <<init_error, cam_vars>>
       ELSE \E error \in {"none", "open", "read"} :
               /\ CameraInitialize(error)
               /\ init_error' = IF error = "none" THEN "none" ELSE "camera"
               /\ main_pc' = AfterInitialize(error = "none", "load_model")
    /\ UNCHANGED <<init_db, api_only, model_loaded, running, current_frame,
                   fps_counter, last_fps_time, api_started, frame, exit_code>>
    /\ status_response' = NoStatus
    /\ UNCHANGED fps_call
    /\ UNCHANGED sec_vars
    /\ UNCHANGED an_vars

\* CameraApp.initialize, lines 141-147, and run, lines 205-207
LoadModel ==
    /\ main_pc = "load_model"
    /\ \E loaded \in BOOLEAN :
          /\ model_loaded' = loaded
          /\ init_error' = IF loaded THEN "none" ELSE "model"
          /\ main_pc' = AfterInitialize(loaded, "start_capture")
    /\ UNCHANGED <<init_db, api_only, running, current_frame, fps_counter,
                   last_fps_time, api_started, frame, exit_code>>
    /\ status_response' = NoStatus
    /\ UNCHANGED fps_call
    /\ UNCHANGED sec_vars
    /\ UNCHANGED <<an_vars, cam_vars>>

\* run, lines 209-210
RunStartCapture ==
    /\ main_pc = "start_capture"
    /\ IF api_only THEN UNCHANGED cam_vars ELSE StartCapture
    /\ main_pc' = "set_running"
    /\ UNCHANGED <<init_db, api_only, init_error, model_loaded, running,
                   current_frame, fps_counter, last_fps_time, api_started,
                   frame, exit_code>>
    /\ status_response' = NoStatus
    /\ UNCHANGED fps_call
    /\ UNCHANGED sec_vars
    /\ UNCHANGED an_vars

\* run, line 212
SetRunning ==
    /\ main_pc = "set_running"
    /\ running' = TRUE
    /\ main_pc' = "start_api"
    /\ UNCHANGED <<init_db, api_only, init_error, model_loaded, current_frame,
                   fps_counter, last_fps_time, api_started, frame, exit_code>>
    /\ status_response' = NoStatus
    /\ UNCHANGED fps_call
    /\ UNCHANGED sec_vars
    /\ UNCHANGED <<an_vars, cam_vars>>

\* run, lines 214-229
StartApi ==
    /\ main_pc = "start_api"
    /\ api_started' = TRUE
    /\ main_pc' = IF api_only THEN "api_wait" ELSE "loop"
    /\ UNCHANGED <<init_db, api_only, init_error, model_loaded, running,
                   current_frame, fps_counter, last_fps_time, frame, exit_code>>
    /\ status_response' = NoStatus
    /\ UNCHANGED fps_call
    /\ UNCHANGED sec_vars
    /\ UNCHANGED <<an_vars, cam_vars>>

\* run, lines 242-247: leave the loop, wait for a first frame, or take a copy
LoopGetFrame ==
    /\ main_pc = "loop"
    /\ IF ~running
       THEN main_pc' = "stop" /\ UNCHANGED frame
       ELSE /\ frame' = GetFrameCopy(cam_current_frame)
            /\ main_pc' = IF frame' = NoFrame THEN "loop" ELSE "process"
    /\ UNCHANGED <<init_db, api_only, init_error, model_loaded, running,
                   current_frame, fps_counter, last_fps_time, api_started, exit_code>>
    /\ status_response' = NoStatus
    /\ UNCHANGED fps_call
    /\ UNCHANGED sec_vars
    /\ UNCHANGED <<an_vars, cam_vars>>

\* CameraApp.process_frame (lines 149-197) on frame f showing scene, while
\* the sends of the notifiers in failing fail: motion, detection, security
\* checks, analytics update, the overlay's reading of the FPS, the count of
\* the frame
ProcessFrameCall(f, scene, failing) ==
    /\ updates < MaxProcessed
    /\ \E motion \in { DetectMotion(prev_frame, f, scene.change) } :
       \E checks \in { SecurityChecks(motion, scene.persons, scene.located,
                                      failing) } :
          /\ prev_frame' = f
          /\ cycle' = [op |-> "process_frame", motion |-> motion,
                       person_count |-> Len(scene.persons),
                       faces |-> checks.faces,
                       alerts |-> checks.alerts, sent |-> checks.sent,
                       failed |-> checks.failed]
          /\ events' = events + Logged(checks.sent)
    /\ Update(scene.persons, f.w, f.h)
    /\ \E g \in { GetFps(fps_counter, last_fps_time, now) } :
          /\ fps_counter' = g.counter + 1
          /\ last_fps_time' = g.last
    /\ UNCHANGED <<sec_config, view>>

ProcessFrame ==
    /\ main_pc = "process"
    /\ \E scene \in AppScenes : ProcessFrameCall(frame, scene, {})
    /\ main_pc' = "publish"
    /\ UNCHANGED <<init_db, api_only, init_error, model_loaded, running,
                   current_frame, api_started, frame, exit_code>>
    /\ status_response' = NoStatus
    /\ UNCHANGED fps_call
    /\ UNCHANGED <<now, cam_vars>>

\* Detector.detect, line 47: the call of the model is given no timeout; when
\* it does not return, process_frame does not either
DetectorStalls ==
    /\ main_pc = "process"
    /\ main_pc' = "stalled"
    /\ UNCHANGED <<init_db, api_only, init_error, model_loaded, running,
                   current_frame, fps_counter, last_fps_time, api_started,
                   frame, exit_code>>
    /\ status_response' = NoStatus
    /\ UNCHANGED fps_call
    /\ UNCHANGED sec_vars
    /\ UNCHANGED <<an_vars, cam_vars>>

\* process_frame, lines 153-157 and 199-201: after the motion detector has
\* run, extract_detections raises on what the model returned; the except
\* clause logs and returns the frame as it came in, before any alert,
\* analytics update or count
ProcessFrameFault(f) ==
    /\ prev_frame' = f
    /\ cycle' = [NoCycle EXCEPT !.op = "fault"]
    /\ UNCHANGED <<sec_config, events, view, fps_counter, last_fps_time>>
    /\ UNCHANGED <<enable_counting, enable_heatmap, heatmap, person_tracks,
                   track_counter, frame_count, people_count_history, call,
                   update_result, stats_result, updates, ever_issued>>

ProcessFrameError ==
    /\ main_pc = "process"
    /\ ProcessFrameFault(frame)
    /\ main_pc' = "publish"
    /\ UNCHANGED <<init_db, api_only, init_error, model_loaded, running,
                   current_frame, api_started, frame, exit_code>>
    /\ status_response' = NoStatus
    /\ UNCHANGED fps_call
    /\ UNCHANGED <<now, cam_vars>>

\* run, line 251: the frame process_frame returned is published, and the
\* cycle is over
Publish ==
    /\ main_pc = "publish"
    /\ frame' = Share(frame)
    /\ current_frame' = frame'
    /\ main_pc' = "loop"
    /\ UNCHANGED <<init_db, api_only, init_error, model_loaded, running,
                   fps_counter, last_fps_time, api_started, exit_code>>
    /\ status_response' = NoStatus
    /\ UNCHANGED fps_call
    /\ cycle' = NoCycle
    /\ view' = NoView
    /\ UNCHANGED <<sec_config, prev_frame, events>>
    /\ UNCHANGED <<an_vars, cam_vars>>

\* run, lines 230-236 and 258-263: KeyboardInterrupt in either loop
Interrupt ==
    /\ main_pc \in {"api_wait", "loop", "process", "publish"}
    /\ main_pc' = "stop"
    /\ UNCHANGED <<init_db, api_only, init_error, model_loaded, running,
                   current_frame, fps_counter, last_fps_time, api_started,
                   frame, exit_code>>
    /\ status_response' = NoStatus
    /\ UNCHANGED fps_call
    /\ UNCHANGED sec_vars
    /\ UNCHANGED <<an_vars, cam_vars>>

\* stop, lines 267-270, and CameraCapture.release, line 145
Stop ==
    /\ main_pc = "stop"
    /\ running' = FALSE
    /\ IF api_only
       THEN main_pc' = "statistics" /\ UNCHANGED cam_vars
       ELSE main_pc' = "join" /\ ReleaseStop
    /\ UNCHANGED <<init_db, api_only, init_error, model_loaded, current_frame,
                   fps_counter, last_fps_time, api_started, frame, exit_code>>
    /\ status_response' = NoStatus
    /\ UNCHANGED fps_call
    /\ UNCHANGED sec_vars
    /\ UNCHANGED an_vars

\* CameraCapture.release, lines 146-147: capture_thread.join(timeout=2)
\* returns, the thread having ended or the 2 s having gone by
StopJoin ==
    /\ main_pc = "join"
    /\ main_pc' = "release"
    /\ UNCHANGED <<init_db, api_only, init_error, model_loaded, running,
                   current_frame, fps_counter, last_fps_time, api_started,
                   frame, exit_code>>
    /\ status_response' = NoStatus
    /\ UNCHANGED fps_call
    /\ UNCHANGED sec_vars
    /\ UNCHANGED <<an_vars, cam_vars>>

\* stop, line 270: the rest of CameraCapture.release
StopRelease ==
    /\ main_pc = "release"
    /\ ReleaseDevice
    /\ main_pc' = "statistics"
    /\ UNCHANGED <<init_db, api_only, init_error, model_loaded, running,
                   current_frame, fps_counter, last_fps_time, api_started,
                   frame, exit_code>>
    /\ status_response' = NoStatus
    /\ UNCHANGED fps_call
    /\ UNCHANGED sec_vars
    /\ UNCHANGED an_vars

\* stop, lines 272-276
FinalStatistics ==
    /\ main_pc = "statistics"
    /\ GetStatistics
    /\ main_pc' = "return"
    /\ UNCHANGED <<init_db, api_only, init_error, model_loaded, running,
                   current_frame, fps_counter, last_fps_time, api_started,
                   frame, exit_code>>
    /\ status_response' = NoStatus
    /\ UNCHANGED fps_call
    /\ UNCHANGED sec_vars
    /\ UNCHANGED <<now, cam_vars>>

\* main returns (lines 291, 295) and the interpreter exits
ExitStatus(error) == 0

Return ==
    /\ main_pc = "return"
    /\ exit_code' = << ExitStatus(init_error) >>
    /\ main_pc' = "exited"
    /\ UNCHANGED <<init_db, api_only, init_error, model_loaded, running,
                   current_frame, fps_counter, last_fps_time, api_started,
                   frame>>
    /\ status_response' = NoStatus
    /\ UNCHANGED fps_call
    /\ UNCHANGED sec_vars
    /\ UNCHANGED <<an_vars, cam_vars>>

\* the route /api/status (lines 75-84), served by the Flask thread, a daemon
\* thread that lives until the process exits
StatusRequest ==
    /\ api_started
    /\ main_pc # "exited"
    /\ \E g \in { GetFps(fps_counter, last_fps_time, now) } :
          /\ status_response' =
                [status |-> IF running THEN "running" ELSE "stopped",
                 frames_processed |-> fps_counter,
                 fps |-> g.fps]
          /\ fps_counter' = g.counter
          /\ last_fps_time' = g.last
    /\ UNCHANGED <<init_db, api_only, main_pc, init_error, model_loaded,
                   running, current_frame, api_started, frame, exit_code>>
    /\ UNCHANGED fps_call
    /\ UNCHANGED <<an_vars, cam_vars, sec_vars>>

\* the capture thread, a daemon thread too; it takes no lock and waits for
\* no other thread
Capture_WaitsForProcessing ==
    /\ main_pc \notin {"exited", "process", "stalled"}
    /\ CaptureThread
    /\ status_response' = NoStatus
    /\ UNCHANGED fps_call
    /\ UNCHANGED sec_vars
    /\ UNCHANGED <<an_vars, app_state>>

Capture ==
    /\ main_pc # "exited"
    /\ CaptureThread
    /\ status_response' = NoStatus
    /\ UNCHANGED fps_call
    /\ UNCHANGED sec_vars
    /\ UNCHANGED <<an_vars, app_state>>

\* time passes
Tick(last) ==
    /\ now < last
    /\ now' = now + 1
    /\ UNCHANGED <<enable_counting, enable_heatmap, heatmap, person_tracks,
                   track_counter, frame_count, people_count_history, call,
                   update_result, stats_result, updates, ever_issued>>
    /\ status_response' = NoStatus
    /\ UNCHANGED fps_call
    /\ UNCHANGED sec_vars
    /\ UNCHANGED <<cam_vars, app_state>>

AppTick == main_pc # "exited" /\ Tick(MaxUptime)

-----------------------------------------------------------------------------
(* The application: main() with the default configuration *)

\* config.py, DEFAULT_CONFIG (lines 30-38), with the face library installed
\* and no known face in the database
DefaultSecurity ==
    /\ enable_face_recognition = TRUE
    /\ enable_alerts = TRUE
    /\ alert_email = FALSE
    /\ slack_webhook = FALSE
    /\ face_recognition = TRUE
    /\ known_faces = {}
    /\ motion_threshold = DefaultMotionThreshold

AppInit ==
    /\ enable_counting = TRUE
    /\ enable_heatmap = TRUE
    /\ rotation = 0
    /\ now = 0
    /\ init_db \in BOOLEAN
    /\ api_only \in BOOLEAN
    /\ DefaultSecurity
    /\ AnalyticsNew
    /\ CameraNew
    /\ SecurityNew
    /\ AppNew

AppNext ==
    \/ Main
    \/ InitializeCamera
    \/ LoadModel
    \/ RunStartCapture
    \/ SetRunning
    \/ StartApi
    \/ LoopGetFrame
    \/ ProcessFrame
    \/ ProcessFrameError
    \/ DetectorStalls
    \/ Publish
    \/ Interrupt
    \/ Stop
    \/ StopJoin
    \/ StopRelease
    \/ FinalStatistics
    \/ Return
    \/ StatusRequest
    \/ Capture
    \/ AppTick

SpecApp == AppInit /\ [][AppNext]_vars

\* The main thread and the capture thread are scheduled: a thread that can
\* take a step takes one.  An interrupt, a request and the device's
\* outcomes stay as they come.
MainThread ==
    \/ Main
    \/ InitializeCamera
    \/ LoadModel
    \/ RunStartCapture
    \/ SetRunning
    \/ StartApi
    \/ LoopGetFrame
    \/ ProcessFrame
    \/ ProcessFrameError
    \/ Publish
    \/ Stop
    \/ StopJoin
    \/ StopRelease
    \/ FinalStatistics
    \/ Return

SpecAppFair == SpecApp /\ WF_vars(MainThread) /\ WF_vars(Capture)

-----------------------------------------------------------------------------
(* The tracker alone: any sequence of calls of AnalyticsModule, under any  *)
(* setting of its two switches                                              *)

AnalyticsInit ==
    /\ enable_counting \in BOOLEAN
    /\ enable_heatmap \in BOOLEAN
    /\ rotation = 0
    /\ now = 0
    /\ init_db = FALSE
    /\ api_only = FALSE
    /\ DefaultSecurity
    /\ AnalyticsNew
    /\ CameraNew
    /\ SecurityNew
    /\ AppNew

CallUpdate ==
    /\ updates < MaxUpdates
    /\ \E person_detections \in DetectionLists :
          Update(person_detections, FrameW, FrameH)
    /\ UNCHANGED <<now, cam_vars, app_vars, sec_vars>>

CallGetStatistics ==
    GetStatistics /\ UNCHANGED <<now, cam_vars, app_vars, sec_vars>>

CallResetHeatmap ==
    ResetHeatmap /\ UNCHANGED <<now, cam_vars, app_vars, sec_vars>>

CallGetHeatmap ==
    GetHeatmap /\ UNCHANGED <<now, cam_vars, app_vars, sec_vars>>

CallResetStatistics ==
    ResetStatistics /\ UNCHANGED <<now, cam_vars, app_vars, sec_vars>>

AnalyticsTick == Tick(MaxTime)

AnalyticsNext ==
    \/ CallUpdate
    \/ CallGetStatistics
    \/ CallResetHeatmap
    \/ CallGetHeatmap
    \/ CallResetStatistics
    \/ AnalyticsTick

SpecAnalytics == AnalyticsInit /\ [][AnalyticsNext]_vars

-----------------------------------------------------------------------------
(* The processing cycle alone: process_frame called on one frame after the *)
(* other, under any security configuration.  The heatmap, which no step of  *)
(* the security checks reads, is switched off (analytics.enable_heatmap).   *)

MotionThresholds == {DefaultMotionThreshold, 20}

MotionLevels == {10, 12, 30}

CycleScenes ==
    { Scene(persons, change, located) :
        persons \in { <<>>, << Box(90, 80, 110, 120) >> },
        change \in MotionLevels,
        located \in { <<>>, << Alice >>, << Alice, Stranger >> } }

CycleFrames == { DeviceFrame(seq) : seq \in 1 .. 2 }

CycleInit ==
    /\ enable_counting = TRUE
    /\ enable_heatmap = FALSE
    /\ rotation = 0
    /\ now = 0
    /\ init_db = FALSE
    /\ api_only = FALSE
    /\ enable_face_recognition \in BOOLEAN
    /\ enable_alerts \in BOOLEAN
    /\ alert_email \in BOOLEAN
    /\ slack_webhook \in BOOLEAN
    /\ face_recognition \in BOOLEAN
    /\ known_faces \in { {}, {"alice"} }
    /\ motion_threshold \in MotionThresholds
    /\ AnalyticsNew
    /\ CameraNew
    /\ SecurityNew
    /\ AppNew

CallProcessFrame ==
    /\ \E f \in CycleFrames, scene \in CycleScenes, failing \in SUBSET Notifiers :
          ProcessFrameCall(f, scene, failing)
    /\ UNCHANGED <<init_db, api_only, main_pc, init_error, model_loaded, running,
                   current_frame, api_started, frame, exit_code>>
    /\ UNCHANGED <<now, cam_vars>>
    /\ status_response' = NoStatus
    /\ UNCHANGED fps_call

CallProcessFrameError ==
    /\ \E f \in CycleFrames : ProcessFrameFault(f)
    /\ UNCHANGED <<now, cam_vars, app_state>>
    /\ status_response' = NoStatus
    /\ UNCHANGED fps_call

CycleNext ==
    \/ CallProcessFrame
    \/ CallProcessFrameError

SpecCycle == CycleInit /\ [][CycleNext]_vars

-----------------------------------------------------------------------------
(* MotionDetector.detect_motion alone, on frames of NPixels pixels: a frame *)
(* is the sequence of its pixels' colours <<blue, green, red>>, the stored  *)
(* previous frame the sequence of grey values cvtColor made of one.  A      *)
(* magnitude is kept as the fraction [num, den] the float division divides  *)
(* out.                                                                     *)

Black == <<0, 0, 0>>

Dim == <<30, 30, 30>>

Dusk == <<31, 31, 31>>

Red == <<0, 0, 255>>

Colours == {Black, Dim, Dusk, Red}

PixelFrames == [1 .. NPixels -> Colours]

\* the thresholds a configuration file can set; nothing validates the value
PixelThresholds == {-1, 0, DefaultMotionThreshold, 50}

\* cv2.cvtColor(frame, cv2.COLOR_BGR2GRAY), line 133:
\* Y = 0.114 B + 0.587 G + 0.299 R, rounded
GreyOf(colour) ==
    (114 * colour[1] + 587 * colour[2] + 299 * colour[3] + 500) \div 1000

CvtColor(f) == [i \in 1 .. Len(f) |-> GreyOf(f[i])]

\* cv2.absdiff, line 140
AbsDiff(a, b) == IF a >= b THEN a - b ELSE b - a

\* cv2.threshold(diff, 30, 255, cv2.THRESH_BINARY), line 141
Binary_AtLeast(diff) == IF diff >= DiffThreshold THEN White ELSE 0

Binary(diff) == IF diff > DiffThreshold THEN White ELSE 0

Thresh(gray, prev) == [i \in 1 .. Len(gray) |-> Binary(AbsDiff(gray[i], prev[i]))]

RECURSIVE SumSeq(_)
SumSeq(seq) == IF seq = <<>> THEN 0 ELSE Head(seq) + SumSeq(Tail(seq))

\* line 144: np.sum(thresh) / (255.0 * thresh.size) * 100
MotionMagnitude(thresh) == Fraction(SumSeq(thresh) * 100, White * Len(thresh))

\* line 145: motion_magnitude > self.motion_threshold
Exceeds(magnitude, threshold) == magnitude.num > threshold * magnitude.den

\* lines 136 and 147: self.prev_frame = gray
StoreGray_KeepFirst(prev, gray) == IF prev = NoFrame THEN gray ELSE prev

StoreGray(prev, gray) == gray

\* MotionDetector.detect_motion (lines 127-149) on frame f:
\* [detected, magnitude, prev_frame]
DetectMotionIn(prev, f) ==
    LET gray == CvtColor(f)
    IN  IF prev = NoFrame
        THEN [detected |-> FALSE, magnitude |-> Zero,
              prev_frame |-> StoreGray(prev, gray)]
        ELSE LET motion_magnitude == MotionMagnitude(Thresh(gray, prev))
             IN  [detected |-> Exceeds(motion_magnitude, motion_threshold),
                  magnitude |-> motion_magnitude,
                  prev_frame |-> StoreGray(prev, gray)]

MotionInit ==
    /\ enable_counting = TRUE
    /\ enable_heatmap = TRUE
    /\ rotation = 0
    /\ now = 0
    /\ init_db = FALSE
    /\ api_only = FALSE
    /\ enable_face_recognition = TRUE
    /\ enable_alerts = TRUE
    /\ alert_email = FALSE
    /\ slack_webhook = FALSE
    /\ face_recognition = TRUE
    /\ known_faces = {}
    /\ motion_threshold \in PixelThresholds
    /\ AnalyticsNew
    /\ CameraNew
    /\ SecurityNew
    /\ AppNew

\* detect_motion(frame) returns; frame is the frame it was given
CallDetectMotion ==
    /\ \E f \in PixelFrames :
       \E result \in { DetectMotionIn(prev_frame, f) } :
          /\ frame' = f
          /\ prev_frame' = result.prev_frame
          /\ cycle' = [NoCycle EXCEPT
                          !.op = "detect_motion",
                          !.motion = [detected |-> result.detected,
                                      magnitude |-> result.magnitude]]
    /\ UNCHANGED <<init_db, api_only, main_pc, init_error, model_loaded, running,
                   current_frame, fps_counter, last_fps_time, api_started,
                   exit_code, status_response, fps_call>>
    /\ UNCHANGED <<sec_config, events, view>>
    /\ UNCHANGED <<now, an_vars, cam_vars>>

\* lines 151-153: cvtColor raises on what it is given (None, say); the
\* except clause answers (False, 0.0) and the stored frame stays
CallDetectMotionError ==
    /\ frame' = NoFrame
    /\ cycle' = [NoCycle EXCEPT
                    !.op = "detect_motion_error",
                    !.motion = [detected |-> FALSE, magnitude |-> Zero]]
    /\ UNCHANGED <<init_db, api_only, main_pc, init_error, model_loaded, running,
                   current_frame, fps_counter, last_fps_time, api_started,
                   exit_code, status_response, fps_call>>
    /\ UNCHANGED <<sec_config, prev_frame, events, view>>
    /\ UNCHANGED <<now, an_vars, cam_vars>>

MotionNext ==
    \/ CallDetectMotion
    \/ CallDetectMotionError

SpecMotion == MotionInit /\ [][MotionNext]_vars

-----------------------------------------------------------------------------
(* The processing loop of run() with process_frame followed stage by stage, *)
(* beside the capture thread: the application is at the top of its loop,    *)
(* initialized and running under the default configuration.                 *)

\* what the detector makes of a frame: it returns results, its model call
\* faults, or it returns results extract_detections cannot read
Inferences == {"ok", "fault", "garbled"}

PipelineViews ==
    { [persons |-> scene.persons, change |-> scene.change,
       located |-> scene.located, inference |-> inference,
       person_detections |-> <<>>, loaded |-> 0] :
         scene \in AppScenes, inference \in Inferences }

\* process_frame, lines 152-196 in the order of the source: the stage that
\* follows a stage
StageAfter_TrackerFirst(stage) ==
    CASE stage = "process" -> "detect"
      [] stage = "detect" -> "update"
      [] stage = "update" -> "alerts"
      [] stage = "alerts" -> "annotate"
      [] stage = "annotate" -> "publish"

StageAfter(stage) ==
    CASE stage = "process" -> "detect"       \* lines 152-153, motion
      [] stage = "detect" -> "alerts"        \* lines 155-158
      [] stage = "alerts" -> "update"        \* lines 160-183
      [] stage = "update" -> "annotate"      \* line 186
      [] stage = "annotate" -> "publish"     \* lines 188-197

\* Detector.detect (detector.py, lines 38-62) catches what the model call
\* raises and returns None; extract_detections (lines 64-85) raises on
\* results it cannot read
DetectOutcome_FaultRaises(inference) ==
    CASE inference = "ok" -> "results"
      [] inference = "fault" -> "raise"
      [] inference = "garbled" -> "raise"

DetectOutcome(inference) ==
    CASE inference = "ok" -> "results"
      [] inference = "fault" -> "none"
      [] inference = "garbled" -> "raise"

\* process_frame, lines 156-157: no results, no detections
PersonDetections(outcome, persons) ==
    IF outcome = "results" THEN persons ELSE <<>>

PipelineInit ==
    /\ enable_counting = TRUE
    /\ enable_heatmap = TRUE
    /\ rotation = 0
    /\ now = 0
    /\ init_db = FALSE
    /\ api_only = FALSE
    /\ DefaultSecurity
    /\ AnalyticsNew
    /\ SecurityNew
    /\ cap = "open"
    /\ reads = 1
    /\ cam_current_frame = Share(ApplyTransforms(DeviceFrame(1), rotation))
    /\ frame_buffer = << cam_current_frame >>
    /\ stored = << cam_current_frame >>
    /\ is_running = TRUE
    /\ cam_frame_count = 0
    /\ capture_pc = "while"
    /\ capture_frame = NoFrame
    /\ main_pc = "loop"
    /\ init_error = "none"
    /\ model_loaded = TRUE
    /\ running = TRUE
    /\ current_frame = NoFrame
    /\ fps_counter = 0
    /\ last_fps_time = now
    /\ api_started = TRUE
    /\ frame = NoFrame
    /\ status_response = NoStatus
    /\ fps_call = NoFpsCall
    /\ exit_code = <<>>

\* lines 152-153: the motion detector sees the frame
StageMotion ==
    /\ main_pc = "process"
    /\ updates < MaxCycles
    /\ \E v \in PipelineViews :
          /\ view' = v
          /\ cycle' = [NoCycle EXCEPT
                          !.op = "stages",
                          !.motion = DetectMotion(prev_frame, frame, v.change)]
    /\ prev_frame' = frame
    /\ main_pc' = StageAfter("process")
    /\ UNCHANGED <<init_db, api_only, init_error, model_loaded, running,
                   current_frame, fps_counter, last_fps_time, api_started,
                   frame, exit_code>>
    /\ status_response' = NoStatus
    /\ UNCHANGED fps_call
    /\ UNCHANGED <<sec_config, events>>
    /\ UNCHANGED <<now, an_vars, cam_vars>>

\* lines 155-158, and lines 199-201 when extract_detections raises: the
\* except clause returns the frame
StageDetect ==
    /\ main_pc = "detect"
    /\ \E outcome \in { DetectOutcome(view.inference) } :
          IF outcome = "raise"
          THEN /\ main_pc' = "publish"
               /\ cycle' = [NoCycle EXCEPT !.op = "fault"]
               /\ UNCHANGED view
          ELSE /\ main_pc' = StageAfter("detect")
               /\ view' = [view EXCEPT !.person_detections =
                                          PersonDetections(outcome, view.persons)]
               /\ cycle' = [cycle EXCEPT !.person_count =
                                            Len(view'.person_detections)]
    /\ UNCHANGED <<init_db, api_only, init_error, model_loaded, running,
                   current_frame, fps_counter, last_fps_time, api_started,
                   frame, exit_code>>
    /\ status_response' = NoStatus
    /\ UNCHANGED fps_call
    /\ UNCHANGED <<sec_config, prev_frame, events>>
    /\ UNCHANGED <<now, an_vars, cam_vars>>

\* lines 160-183: the security checks
StageAlerts ==
    /\ main_pc = "alerts"
    /\ \E checks \in { SecurityChecks(cycle.motion, view.person_detections,
                                      view.located, {}) } :
          /\ cycle' = [cycle EXCEPT !.faces = checks.faces,
                                    !.alerts = checks.alerts,
                                    !.sent = checks.sent,
                                    !.failed = checks.failed]
          /\ events' = events + Logged(checks.sent)
    /\ main_pc' = StageAfter("alerts")
    /\ UNCHANGED <<init_db, api_only, init_error, model_loaded, running,
                   current_frame, fps_counter, last_fps_time, api_started,
                   frame, exit_code>>
    /\ status_response' = NoStatus
    /\ UNCHANGED fps_call
    /\ UNCHANGED <<sec_config, prev_frame, view>>
    /\ UNCHANGED <<now, cam_vars>>
    /\ UNCHANGED an_vars

\* line 186: the analytics update
StageUpdate_SkipEmpty ==
    /\ main_pc = "update"
    /\ IF view.person_detections = <<>>
       THEN UNCHANGED an_vars
       ELSE Update(view.person_detections, frame.w, frame.h)
    /\ main_pc' = StageAfter("update")
    /\ UNCHANGED <<init_db, api_only, init_error, model_loaded, running,
                   current_frame, fps_counter, last_fps_time, api_started,
                   frame, exit_code>>
    /\ status_response' = NoStatus
    /\ UNCHANGED fps_call
    /\ UNCHANGED sec_vars
    /\ UNCHANGED <<now, cam_vars>>

StageUpdate ==
    /\ main_pc = "update"
    /\ Update(view.person_detections, frame.w, frame.h)
    /\ main_pc' = StageAfter("update")
    /\ UNCHANGED <<init_db, api_only, init_error, model_loaded, running,
                   current_frame, fps_counter, last_fps_time, api_started,
                   frame, exit_code>>
    /\ status_response' = NoStatus
    /\ UNCHANGED fps_call
    /\ UNCHANGED sec_vars
    /\ UNCHANGED <<now, cam_vars>>

\* lines 188-197: the boxes and the overlay, which reads the FPS, are drawn
\* and the frame is counted
StageAnnotate ==
    /\ main_pc = "annotate"
    /\ \E g \in { GetFps(fps_counter, last_fps_time, now) } :
          /\ fps_counter' = g.counter + 1
          /\ last_fps_time' = g.last
    /\ main_pc' = StageAfter("annotate")
    /\ UNCHANGED <<init_db, api_only, init_error, model_loaded, running,
                   current_frame, api_started, frame, exit_code>>
    /\ status_response' = NoStatus
    /\ UNCHANGED fps_call
    /\ UNCHANGED sec_vars
    /\ UNCHANGED <<now, an_vars, cam_vars>>

ProcessingLoop ==
    \/ LoopGetFrame
    \/ StageMotion
    \/ StageDetect
    \/ StageAlerts
    \/ StageUpdate
    \/ StageAnnotate
    \/ Publish

PipelineNext ==
    \/ ProcessingLoop
    \/ Capture

SpecPipeline == PipelineInit /\ [][PipelineNext]_vars

\* the main thread is scheduled
SpecPipelineFair == SpecPipeline /\ WF_vars(ProcessingLoop)

-----------------------------------------------------------------------------
(* The processed-frame counter between its two threads: the processing     *)
(* loop with process_frame followed stage by stage down to the load and the *)
(* store of self.fps_counter += 1, and the Flask thread serving /api/status *)
(* with get_fps followed statement by statement.  No lock is taken by      *)
(* either (main.py has none), so the steps interleave freely.  The capture  *)
(* thread, which never touches the counter, rests at the top of its loop.   *)

\* process_frame, lines 188-194: the boxes and the overlay, which reads the
\* FPS (get_fps on the main thread)
StageOverlay ==
    /\ main_pc = "annotate"
    /\ \E g \in { GetFps(fps_counter, last_fps_time, now) } :
          /\ fps_counter' = g.counter
          /\ last_fps_time' = g.last
    /\ main_pc' = "count"
    /\ UNCHANGED <<init_db, api_only, init_error, model_loaded, running,
                   current_frame, api_started, frame, exit_code>>
    /\ status_response' = NoStatus
    /\ UNCHANGED fps_call
    /\ UNCHANGED sec_vars
    /\ UNCHANGED <<now, an_vars, cam_vars>>

\* line 196, self.fps_counter += 1: the attribute is loaded
CountLoad ==
    /\ main_pc = "count"
    /\ view' = [view EXCEPT !.loaded = fps_counter]
    /\ main_pc' = "store"
    /\ UNCHANGED <<init_db, api_only, init_error, model_loaded, running,
                   current_frame, fps_counter, last_fps_time, api_started,
                   frame, exit_code>>
    /\ status_response' = NoStatus
    /\ UNCHANGED fps_call
    /\ UNCHANGED <<sec_config, prev_frame, events, cycle>>
    /\ UNCHANGED <<now, an_vars, cam_vars>>

\* line 196: the sum is stored, and line 197 returns the frame
CountStore ==
    /\ main_pc = "store"
    /\ fps_counter' = view.loaded + 1
    /\ main_pc' = "publish"
    /\ UNCHANGED <<init_db, api_only, init_error, model_loaded, running,
                   current_frame, last_fps_time, api_started, frame, exit_code>>
    /\ status_response' = NoStatus
    /\ UNCHANGED fps_call
    /\ UNCHANGED sec_vars
    /\ UNCHANGED <<now, an_vars, cam_vars>>

\* the route /api/status, lines 79-82, and get_fps, lines 123-124 and 129:
\* the flag and the counter are read for the answer, get_fps takes the time
\* elapsed and returns 0 when the window is not over
StatusBegin ==
    /\ api_started
    /\ fps_call.pc = "idle"
    /\ \E elapsed \in { now - last_fps_time } :
          IF WindowOver(elapsed)
          THEN /\ fps_call' = [pc |-> "read",
                               status |-> IF running THEN "running" ELSE "stopped",
                               frames_processed |-> fps_counter,
                               elapsed |-> elapsed, fps |-> Zero]
               /\ status_response' = NoStatus
          ELSE /\ fps_call' = NoFpsCall
               /\ status_response' =
                     [status |-> IF running THEN "running" ELSE "stopped",
                      frames_processed |-> fps_counter, fps |-> Zero]
    /\ UNCHANGED app_state
    /\ UNCHANGED <<an_vars, cam_vars, sec_vars>>

\* get_fps, line 125: fps = self.fps_counter / elapsed
FpsCompute ==
    /\ fps_call.pc = "read"
    /\ fps_call' = [fps_call EXCEPT !.pc = "reset",
                                    !.fps = Fraction(fps_counter, fps_call.elapsed)]
    /\ status_response' = NoStatus
    /\ UNCHANGED app_state
    /\ UNCHANGED <<an_vars, cam_vars, sec_vars>>

\* get_fps, lines 126-128: the counter is set to 0, the window starts anew,
\* fps is returned and the route answers
FpsReset ==
    /\ fps_call.pc = "reset"
    /\ fps_counter' = 0
    /\ last_fps_time' = now
    /\ status_response' = [status |-> fps_call.status,
                           frames_processed |-> fps_call.frames_processed,
                           fps |-> fps_call.fps]
    /\ fps_call' = NoFpsCall
    /\ UNCHANGED <<init_db, api_only, main_pc, init_error, model_loaded,
                   running, current_frame, api_started, frame, exit_code>>
    /\ UNCHANGED <<an_vars, cam_vars, sec_vars>>

CountingLoop ==
    \/ LoopGetFrame
    \/ StageMotion
    \/ StageDetect
    \/ StageAlerts
    \/ StageUpdate
    \/ StageOverlay
    \/ CountLoad
    \/ CountStore
    \/ Publish

StatusThread ==
    \/ StatusBegin
    \/ FpsCompute
    \/ FpsReset

CounterNext ==
    \/ CountingLoop
    \/ StatusThread
    \/ AppTick

SpecCounter == PipelineInit /\ [][CounterNext]_vars

-----------------------------------------------------------------------------
(* Properties of the tracker and the heatmap, under SpecAnalytics *)

\* a step of the named AnalyticsModule method (Tick alone moves the clock)
StepOf(op) == call'.op = op /\ now' = now

Keys(detections) == 0 .. Len(detections) - 1

MatchedKeys(assigned) == { a[2] : a \in assigned }

MatchedIds(assigned) == { a[1] : a \in assigned }

CreatedKeys(created) == { created[i][1] : i \in 1 .. Len(created) }

\* C1: within one update call no detection centroid is assigned to two
\* tracks, and every centroid left unmatched creates exactly one new track:
\* the centroids that created a track are exactly the unmatched ones, each
\* appears once, under an id of its own, and the tracks after the call are
\* the matched ones plus one per unmatched centroid.
C1_OneTrackPerCentroid ==
    (call.op = "update" /\ enable_counting) =>
        /\ \A a, b \in call.assigned : a[2] = b[2] => a[1] = b[1]
        /\ \A a, b \in call.assigned : a[1] = b[1] => a[2] = b[2]
        /\ CreatedKeys(call.created)
              = Keys(call.detections) \ MatchedKeys(call.assigned)
        /\ \A i, j \in 1 .. Len(call.created) :
              (call.created[i][1] = call.created[j][1]
                 \/ call.created[i][2] = call.created[j][2]) => i = j
        /\ Ids(call.created) \cap MatchedIds(call.assigned) = {}
        /\ DOMAIN person_tracks = MatchedIds(call.assigned) \cup Ids(call.created)
        /\ \A i \in 1 .. Len(call.created) :
              person_tracks[call.created[i][2]].position
                 = CurrentCentroids(call.detections)[call.created[i][1]]

\* two detections on one spot: the track there took the first, the second
\* became a new track
C1_Witness ==
    /\ call.op = "update"
    /\ enable_counting
    /\ Cardinality(call.assigned) = 1
    /\ Len(call.created) = 1
    /\ call.detections[1] = call.detections[2]

\* C2: a track that exists before an update call and is matched to no
\* centroid in it is absent from the tracks when the call returns.
C2_UnmatchedTrackEvicted ==
    [][ StepOf("update") =>
           \A id \in DOMAIN person_tracks :
              id \notin MatchedIds(call'.assigned) => id \notin DOMAIN person_tracks'
      ]_vars

\* both updates came after any reset, and a track of the first is gone
C2_Witness ==
    /\ call.op = "update"
    /\ updates = 2
    /\ frame_count = 2
    /\ \E id \in ever_issued : id \notin DOMAIN person_tracks
    /\ DOMAIN person_tracks # {}

\* C3: no identifier value is ever given to two different tracks, over any
\* sequence of update, reset_heatmap and reset_statistics calls.
C3_IdentifiersNeverReused ==
    Ids(call.created) \cap ever_issued = {}

\* C4: a centroid matched to an existing track keeps that track's id and
\* entry time and creates no new track; the track counter grows by exactly
\* the number of unmatched centroids.  Scenario: tracks 1 and 2 at (100,100)
\* and (500,500), one detection at (105,102): track 1 stays, track 2 goes,
\* one active track, counter still 2.
Scenario_Before ==
    /\ DOMAIN person_tracks = {1, 2}
    /\ person_tracks[1].position = <<100, 100>>
    /\ person_tracks[2].position = <<500, 500>>
    /\ track_counter = 2

Scenario_After ==
    /\ DOMAIN person_tracks = {1}
    /\ person_tracks[1].position = <<105, 102>>
    /\ track_counter = 2
    /\ update_result.active_tracks = 1
    /\ update_result.people_count = 1

C4_MatchedKeepsIdentity ==
    [][ (StepOf("update") /\ enable_counting) =>
           /\ \A a \in call'.assigned :
                 /\ a[1] \in DOMAIN person_tracks
                 /\ a[1] \in DOMAIN person_tracks'
                 /\ person_tracks'[a[1]].entry_time = person_tracks[a[1]].entry_time
                 /\ person_tracks'[a[1]].position
                       = CurrentCentroids(call'.detections)[a[2]]
                 /\ a[2] \notin CreatedKeys(call'.created)
           /\ track_counter' = track_counter
                 + Cardinality(Keys(call'.detections) \ MatchedKeys(call'.assigned))
           /\ (Scenario_Before /\ call'.detections = << Box(95, 92, 116, 113) >>)
                 => Scenario_After'
      ]_vars

\* the scenario's end state, reached one tick after the tracks were made
C4_Witness ==
    /\ call.op = "update"
    /\ call.assigned = { <<1, 0>> }
    /\ Scenario_After
    /\ person_tracks[1].entry_time < person_tracks[1].last_seen

\* C5: the average dwell time returned by update, and by get_statistics, is
\* the arithmetic mean of (now - entry_time) over exactly the tracks active
\* when the call returns, and 0.0 when there is none.
IsMeanDwell(avg, tracks, t) ==
    IF DOMAIN tracks = {}
    THEN avg.num = 0 /\ avg.den = 1
    ELSE /\ avg.den > 0
         /\ avg.num * Cardinality(DOMAIN tracks)
               = avg.den * (Cardinality(DOMAIN tracks) * t
                              - SumOver([id \in DOMAIN tracks |-> tracks[id].entry_time],
                                        DOMAIN tracks))

C5_AverageDwellIsMean ==
    [][ /\ StepOf("update") =>
              IsMeanDwell(update_result'.average_dwell_time, person_tracks', now')
        /\ StepOf("get_statistics") =>
              IsMeanDwell(stats_result'.avg_dwell_time, person_tracks', now')
      ]_vars

\* an old track (dwell 1) and a new one (dwell 0): the mean is 1/2
C5_Witness ==
    /\ call.op = "update"
    /\ Cardinality(DOMAIN person_tracks) = 2
    /\ update_result.average_dwell_time = Fraction(1, 2)
    /\ \E id \in DOMAIN person_tracks :
          person_tracks[id].entry_time < person_tracks[id].last_seen

\* C7: every heatmap cell is non-negative in every reachable state, no
\* update call lowers a cell, and right after reset_heatmap every cell is 0.
C7_HeatmapMonotone ==
    /\ [](\A cell \in Cells : heatmap[cell] >= 0)
    /\ [][ /\ StepOf("update") => \A cell \in Cells : heatmap'[cell] >= heatmap[cell]
           /\ StepOf("reset_heatmap") => \A cell \in Cells : heatmap'[cell] = 0
         ]_vars

\* a second update deposited on a heatmap that already held a blob
C7_Witness ==
    /\ call.op = "update"
    /\ enable_heatmap
    /\ updates >= 2
    /\ Len(call.detections) > 0
    /\ \E cell \in Cells : heatmap[cell] = 1
    /\ \E cell \in Cells : heatmap[cell] = 0

\* what a request of /api/heatmap arriving now is answered
Served == HeatmapRoute(heatmap)

\* an update call that deposits a detection into the heatmap
Deposits == StepOf("update") /\ enable_heatmap /\ call'.detections # <<>>

\* C26: /api/heatmap answers 404 in every state in which no detection has
\* been deposited into the heatmap since the start or since the last
\* reset_heatmap, and an image once an update has deposited one: the answer
\* is 404 at the start and after reset_heatmap, an image of the heatmap's
\* shape with values in 0..255 after an update that deposits a detection,
\* and no other step changes it; the request itself answers just that and
\* leaves the heatmap as it is.
C26_HeatmapNotFoundUntilDeposit ==
    /\ [](call.op = "init" => Served.status = 404)
    /\ [][ \E before \in { HeatmapRoute(heatmap) },
              after \in { HeatmapRoute(heatmap') } :
              /\ StepOf("reset_heatmap") => after.status = 404
              /\ Deposits =>
                    /\ after.status = 200
                    /\ DOMAIN after.image = Cells
                    /\ \A cell \in Cells : after.image[cell][2] \in 0 .. 255
              /\ ~(StepOf("reset_heatmap") \/ Deposits)
                    => after.status = before.status
              /\ StepOf("get_heatmap") =>
                    /\ call'.response = before
                    /\ heatmap' = heatmap
         ]_vars

\* a request answered 404 although people were detected and tracked: the
\* heatmap was reset after the updates
C26_Witness ==
    /\ call.op = "get_heatmap"
    /\ call.response.status = 404
    /\ enable_heatmap
    /\ enable_counting
    /\ frame_count = 2
    /\ Cardinality(DOMAIN person_tracks) >= 1

\* C28: the two resets are independent: reset_heatmap clears the heatmap
\* and leaves the tracks, the track counter, the frame count and the
\* occupancy history as they were; reset_statistics clears the tracks, the
\* occupancy history and the frame count and leaves the heatmap as it was.
C28_ResetsIndependent ==
    [][ /\ StepOf("reset_heatmap") =>
              /\ heatmap' = ZeroHeatmap
              /\ UNCHANGED <<person_tracks, track_counter, frame_count,
                             people_count_history>>
        /\ StepOf("reset_statistics") =>
              /\ heatmap' = heatmap
              /\ DOMAIN person_tracks' = {}
              /\ DOMAIN people_count_history' = {}
              /\ frame_count' = 0
      ]_vars

\* the heatmap was reset after two updates that found and tracked people:
\* the statistics are all still there
C28_Witness ==
    /\ call.op = "reset_heatmap"
    /\ heatmap = ZeroHeatmap
    /\ enable_heatmap
    /\ enable_counting
    /\ frame_count = 2
    /\ track_counter >= 1
    /\ Cardinality(DOMAIN person_tracks) >= 1
    /\ DOMAIN people_count_history # {}

\* C29: get_statistics reports, for the update calls since the last
\* reset_statistics, their number as total_frames, the number of active
\* tracks as current_tracks and the number of tracks created as
\* total_people_passed: the frame count and the track counter are 0 at the
\* start and after reset_statistics, every update call adds one to the
\* frame count and the tracks it created to the track counter, no other
\* step changes them, and get_statistics reports them as they are.
C29_StatisticsCountSinceReset ==
    /\ [](call.op = "init" => (frame_count = 0 /\ track_counter = 0))
    /\ [][ /\ StepOf("update") =>
                 /\ frame_count' = frame_count + 1
                 /\ track_counter' = track_counter + Len(call'.created)
           /\ StepOf("reset_statistics") =>
                 (frame_count' = 0 /\ track_counter' = 0)
           /\ ~(StepOf("update") \/ StepOf("reset_statistics")) =>
                 UNCHANGED <<frame_count, track_counter, person_tracks>>
           /\ StepOf("get_statistics") =>
                 /\ stats_result'.total_frames = frame_count
                 /\ stats_result'.current_tracks
                       = Cardinality(DOMAIN person_tracks)
                 /\ stats_result'.total_people_passed = track_counter
         ]_vars

\* statistics read after two update calls with a reset between them: one
\* frame, and the person the second call began to track
C29_Witness ==
    /\ call.op = "get_statistics"
    /\ updates = 2
    /\ stats_result.total_frames = 1
    /\ stats_result.current_tracks = 1
    /\ stats_result.total_people_passed = 1

\* the centroid keys the tracks older than id took in a call
TakenBefore(assigned, id) == { a[2] : a \in { b \in assigned : b[1] < id } }

\* squared distance of centroid key from the place a track was at
Away2(tracks, id, centroids, key) == Dist2(centroids[key], tracks[id].position)

InRange(d2) == d2 < MaxDistance * MaxDistance

\* tracks 1 and 2 stand at (100,100) and (105,102)
Rivals ==
    /\ DOMAIN person_tracks = {1, 2}
    /\ person_tracks[1].position = <<100, 100>>
    /\ person_tracks[2].position = <<105, 102>>

\* C31: matching is greedy in track order.  In an update call every track
\* that is matched took, among the centroids the tracks of smaller id left
\* and that are in range, a nearest one, and of several nearest ones the
\* earliest of the input; a track that is not matched had no such centroid.
\* So of tracks 1 and 2 at (100,100) and (105,102), a single detection at
\* (105,102) goes to track 1 and track 2 is evicted, although the other
\* assignment would be the one of least distance.
C31_GreedyTrackOrder ==
    [][ (StepOf("update") /\ enable_counting) =>
          \E centroids \in { CurrentCentroids(call'.detections) } :
             /\ \A a \in call'.assigned :
                   \E free \in { DOMAIN centroids \ TakenBefore(call'.assigned, a[1]) } :
                      /\ a[2] \in free
                      /\ InRange(Away2(person_tracks, a[1], centroids, a[2]))
                      /\ \A key \in free :
                            \/ Away2(person_tracks, a[1], centroids, a[2])
                                  < Away2(person_tracks, a[1], centroids, key)
                            \/ /\ Away2(person_tracks, a[1], centroids, a[2])
                                     = Away2(person_tracks, a[1], centroids, key)
                               /\ a[2] <= key
             /\ \A id \in DOMAIN person_tracks \ MatchedIds(call'.assigned) :
                   \A key \in DOMAIN centroids \ TakenBefore(call'.assigned, id) :
                      ~InRange(Away2(person_tracks, id, centroids, key))
             /\ (Rivals /\ call'.detections = << Box(95, 92, 116, 113) >>)
                   => /\ call'.assigned = { <<1, 0>> }
                      /\ DOMAIN person_tracks' = {1}
                      /\ Away2(person_tracks, 2, centroids, 0)
                            < Away2(person_tracks, 1, centroids, 0)
      ]_vars

\* the older track has moved onto the newer track's spot, one tick after
\* both were made, and the newer track is gone
C31_Witness ==
    /\ call.op = "update"
    /\ enable_counting
    /\ call.detections = << Box(95, 92, 116, 113) >>
    /\ call.assigned = { <<1, 0>> }
    /\ DOMAIN person_tracks = {1}
    /\ person_tracks[1].position = <<105, 102>>
    /\ person_tracks[1].entry_time < person_tracks[1].last_seen
    /\ 2 \in ever_issued
    /\ track_counter = 2
    /\ frame_count = 2

\* the centroids a track finds not yet taken when its turn comes
FreeFor(assigned, id, centroids) == DOMAIN centroids \ TakenBefore(assigned, id)

\* the track's nearest free centroid lies at exactly MaxDistance
NearestAtLimit(tracks, id, centroids, free) ==
    /\ \E key \in free :
          Away2(tracks, id, centroids, key) = MaxDistance * MaxDistance
    /\ \A key \in free :
          Away2(tracks, id, centroids, key) >= MaxDistance * MaxDistance

AtLimit(tracks, id, centroids, free) ==
    { key \in free : Away2(tracks, id, centroids, key) = MaxDistance * MaxDistance }

\* one track at (100,100), one detection at (130,140), 50 away
Lone ==
    /\ DOMAIN person_tracks = {1}
    /\ person_tracks[1].position = <<100, 100>>
    /\ track_counter = 1

PeakOf(history) == MaxOver(history, DOMAIN history)

\* C33: the peak occupancy get_statistics reports is the true peak: it is
\* the peak of the history as update left it, and after an update call that
\* follows another it is not smaller than the people count of either.
C33_PeakIsTruePeak ==
    [][ /\ StepOf("get_statistics") =>
              stats_result'.peak_people_count = PeakOf(people_count_history)
        /\ StepOf("update") =>
              PeakOf(people_count_history') >= Len(call'.detections)
        /\ (call.op = "update" /\ StepOf("update")) =>
              PeakOf(people_count_history') >= update_result.people_count
      ]_vars

\* C34: with people counting enabled, when an update call has returned the
\* active tracks are as many as the person detections it was given: the
\* matched tracks and the created tracks are one per centroid, and the
\* result's active_tracks equals its people_count.
C34_TracksEqualDetections ==
    (call.op = "update" /\ enable_counting) =>
        /\ Cardinality(DOMAIN person_tracks) = Len(call.detections)
        /\ Cardinality(call.assigned) + Len(call.created) = Len(call.detections)
        /\ update_result.people_count = Len(call.detections)
        /\ update_result.active_tracks = update_result.people_count

\* two detections, one for a track that was there and one that became a
\* new track, while another old track was evicted
C34_Witness ==
    /\ call.op = "update"
    /\ enable_counting
    /\ Len(call.detections) = 2
    /\ Cardinality(call.assigned) = 1
    /\ Len(call.created) = 1
    /\ \E id \in ever_issued : id \notin DOMAIN person_tracks
    /\ update_result.active_tracks = 2
    /\ update_result.people_count = 2

-----------------------------------------------------------------------------
(* Properties of the application, under SpecApp *)

LastOf(frames, n) ==
    IF Len(frames) <= n THEN frames
    ELSE [i \in 1 .. n |-> frames[Len(frames) - n + i]]

\* C6: the frame ring buffer never holds more than frame_buffer_size
\* frames; an append to a full buffer drops exactly the oldest frame, so the
\* buffer is always the most recent stored frames, in capture order.
C6_RingBufferBounded ==
    /\ Len(frame_buffer) <= FrameBufferSize
    /\ frame_buffer = LastOf(stored, FrameBufferSize)
    /\ \A i, j \in 1 .. Len(frame_buffer) :
          i < j => frame_buffer[i].seq < frame_buffer[j].seq

\* the buffer is full and has dropped frames
C6_Witness ==
    /\ Len(stored) > FrameBufferSize
    /\ Len(frame_buffer) = FrameBufferSize
    /\ frame_buffer[1].seq > 1

\* C8: the processed-frame counter reported as frames_processed never goes
\* down while the application is running and does not change while it is
\* stopped, whatever the interleaving of processing and status requests.
C8_FramesProcessedMonotone ==
    [][ /\ (running /\ running') => fps_counter' >= fps_counter
        /\ (~running /\ ~running') => fps_counter' = fps_counter
      ]_vars

\* C9: the application is running only after the model was loaded and,
\* when it has a camera (no --api-only), the camera was initialized; once
\* either has failed the running flag is never set, the capture thread and
\* the API server are never started and no frame is processed.
C9_RunningNeedsInitialization ==
    /\ running => /\ init_error = "none"
                  /\ model_loaded
                  /\ ~api_only => cap = "open"
    /\ init_error # "none" =>
          /\ ~running
          /\ ~is_running /\ capture_pc = "idle"
          /\ ~api_started
          /\ updates = 0 /\ fps_counter = 0 /\ current_frame = NoFrame

\* the camera came up, the model did not load, and the process has ended
C9_Witness ==
    /\ init_error = "model"
    /\ cap = "open"
    /\ main_pc = "exited"
    /\ ~running

\* C10: the process exits with 0 after a normal or interrupted shutdown and
\* with a non-zero status whenever startup failed fatally.
C10_ExitCodeTellsFailure ==
    main_pc = "exited" =>
        IF init_error = "none" THEN exit_code = <<0>> ELSE exit_code # <<0>>

\* the frame the capture thread is working on, between the read and the
\* assignment to current_frame
CaptureWorking == capture_pc = "publish"

\* the frame process_frame is given and draws into
ProcessWorking == main_pc \in {"process", "stalled"}

\* C13: no reader ever finds a partly written frame.  The references other
\* threads read (the camera's current frame, the ring buffer, the published
\* annotated frame) hold only arrays that are written no more: an array is
\* shared by one assignment after its transforms (camera) or its annotation
\* (application) are over, the array a thread is still writing is reachable
\* by that thread alone, and no step changes the content of a shared array.
C13_NoPartialFrame ==
    /\ [](/\ ProcessWorking => ~frame.shared
          /\ CaptureWorking => ~capture_frame.shared
          /\ cam_current_frame # NoFrame =>
                /\ cam_current_frame.shared
                /\ cam_current_frame
                      = Share(ApplyTransforms(DeviceFrame(cam_current_frame.seq), rotation))
          /\ \A i \in 1 .. Len(frame_buffer) :
                frame_buffer[i].shared
          /\ current_frame # NoFrame => current_frame.shared)
    /\ [][ /\ (cam_current_frame'.seq = cam_current_frame.seq)
                 => cam_current_frame' = cam_current_frame
           /\ (current_frame # NoFrame /\ current_frame' # current_frame)
                 => (main_pc = "publish" /\ current_frame' = Share(frame))
         ]_vars

\* the processing loop has drawn into its copy of a frame while the camera
\* had already published the next one, and an earlier frame is published
C13_Witness ==
    /\ main_pc = "publish"
    /\ ~frame.shared
    /\ frame.seq < cam_current_frame.seq
    /\ current_frame # NoFrame /\ current_frame.seq < frame.seq

\* C12: serving a facade request changes nothing of the orchestrator and
\* the pipeline: the running flag, the processed-frame counter, the start of
\* the FPS window, the published frame, the tracks and the heatmap are after
\* the request what they were before it.
C12_FacadeReadsOnly ==
    [][ StatusRequest =>
           UNCHANGED <<running, fps_counter, last_fps_time, current_frame,
                       person_tracks, heatmap>>
      ]_vars

CaptureLooping == capture_pc \in {"while", "read", "publish", "append"}

\* C14: the acquisition loop waits for nobody.  Wherever the processing loop
\* and the facade are, also with the detector call never returning, the
\* capture thread can take its next step, and the step that follows a read
\* publishes the frame read as the new current frame.
C14_CaptureNeverWaits ==
    (CaptureLooping /\ main_pc # "exited") =>
        /\ ENABLED Capture
        /\ capture_pc = "publish" =>
              ENABLED (Capture /\ cam_current_frame'.seq = capture_frame.seq
                               /\ cam_current_frame'.seq > cam_current_frame.seq)

\* the detector call never returned, and the camera has since published two
\* frames newer than the one being processed
C14_Witness ==
    /\ main_pc = "stalled"
    /\ cam_current_frame.seq = frame.seq + 2
    /\ cam_frame_count = 2
    /\ capture_pc = "while"

\* C15: stopping is cooperative and bounded.  Once the stop flag of the
\* acquisition loop is cleared the loop begins no further iteration: it
\* finishes the one in progress and ends at its next test.  The processing
\* loop runs no cycle once the running flag is cleared.  The device is
\* released only after the flag was cleared and the join on the acquisition
\* thread has returned.
C15_StopWithinOneCycle ==
    /\ [](main_pc \in {"loop", "process", "stalled", "publish"} => running)
    /\ [][ /\ ~is_running => ~(capture_pc = "while" /\ capture_pc' = "read")
           /\ (~is_running /\ capture_pc = "while" /\ capture_pc' # capture_pc)
                 => capture_pc' = "done"
           /\ (cap # "released" /\ cap' = "released")
                 => (main_pc = "release" /\ ~is_running /\ ~running)
           /\ main_pc' = "release" => main_pc \in {"join", "release"}
         ]_vars

\* stop came while an iteration was in progress; that iteration published
\* its frame, the loop ended, and the device was released after the join
C15_Witness ==
    /\ cap = "released"
    /\ capture_pc = "done"
    /\ cam_frame_count = 1
    /\ main_pc = "statistics"

\* a read of the acquisition loop that delivered nothing and raised nothing
FailedRead ==
    /\ capture_pc = "read"
    /\ capture_pc' \notin {"read", "publish", "failed"}

\* C25: a failed frame read in the acquisition loop is skipped and is not
\* fatal: it leaves the current frame, the ring buffer and the count of
\* captured frames as they were, does not clear the running flag, and takes
\* the loop back to its test, from where a loop that is still running goes
\* to its next read.
C25_FailedReadSkipped ==
    [][ /\ FailedRead =>
            /\ UNCHANGED <<cam_current_frame, frame_buffer, stored,
                           cam_frame_count, is_running, cap>>
            /\ capture_pc' = "while"
        /\ (capture_pc = "while" /\ is_running /\ capture_pc' # "while")
              => capture_pc' = "read"
      ]_vars

\* the loop is running, has captured a frame, and its read fails
C25_Witness ==
    /\ capture_pc = "read"
    /\ is_running
    /\ cap = "open"
    /\ cam_frame_count = 1
    /\ reads < MaxReads
    /\ ENABLED (CaptureRead /\ FailedRead /\ capture_pc' = "while")

\* a /api/status request is served, which reads the FPS
FpsRead == status_response'.status # "none"

\* C27, as stated: reading the FPS when at least 1 second has elapsed since
\* the window start returns counter/elapsed and resets the window (counter
\* to 0, window start to now); reading it earlier leaves both unchanged.
C27_FpsWindowAtLeastOneSecond ==
    [][ FpsRead =>
          IF now - last_fps_time >= OneSecond
          THEN /\ status_response'.fps
                     = Fraction(fps_counter, now - last_fps_time)
               /\ fps_counter' = 0
               /\ last_fps_time' = now
          ELSE UNCHANGED <<fps_counter, last_fps_time>>
      ]_vars

\* C27, amended: reading the FPS when more than 1 second has elapsed since
\* the window start returns counter/elapsed and resets the window (counter
\* to 0, window start to now); reading it when 1 second or less has elapsed
\* returns 0 and leaves the counter and the window start unchanged.
C27_FpsWindowOverOneSecond ==
    [][ FpsRead =>
          IF now - last_fps_time > OneSecond
          THEN /\ status_response'.fps
                     = Fraction(fps_counter, now - last_fps_time)
               /\ fps_counter' = 0
               /\ last_fps_time' = now
          ELSE /\ status_response'.fps = Zero
               /\ UNCHANGED <<fps_counter, last_fps_time>>
      ]_vars

\* the FPS was read exactly 1 second after the window start, with a frame
\* counted: the answer was 0 and the window goes on
C27_Witness ==
    /\ status_response.status = "running"
    /\ now - last_fps_time = OneSecond
    /\ fps_counter = 1
    /\ status_response.frames_processed = 1
    /\ status_response.fps = Zero

\* C36: the acquisition loop never reads from the device after the device
\* was released: once cap.release() has been called the capture thread
\* neither is in a read, nor enters one, nor returns from one.
C36_NoReadAfterRelease ==
    /\ [](cap = "released" => capture_pc # "read")
    /\ [][ cap = "released" =>
              /\ ~(capture_pc = "read" /\ capture_pc' # "read")
              /\ ~(capture_pc # "read" /\ capture_pc' = "read")
         ]_vars

-----------------------------------------------------------------------------
(* Properties of the scheduled application, under SpecAppFair *)

\* C11: once the acquisition loop has ended on a capture error while the
\* application is running, the application stops: the running flag becomes
\* false (and with it the frame source is released and the final statistics
\* are logged), unless a detector call that never returns holds the
\* processing loop.
C11_CaptureFailureStops ==
    (capture_pc = "failed" /\ running) ~> (~running \/ main_pc = "stalled")

\* C16: a call of an external collaborator that never returns does not hold
\* up its loop: when the detector call of a cycle never returns, the
\* processing loop still finishes that cycle and comes to its next one.
C16_StalledCallDegrades ==
    (main_pc = "stalled") ~> (main_pc = "loop")

-----------------------------------------------------------------------------
(* Properties of the processing cycle, under SpecCycle *)

OfType(alerts, type) == SelectSeq(alerts, LAMBDA a : a.type = type)

Count(seq, x) == Cardinality({ i \in 1 .. Len(seq) : seq[i] = x })

Range(seq) == { seq[i] : i \in 1 .. Len(seq) }

\* the cycle ran its security checks (no fault before them)
Evaluated == cycle.op = "process_frame"

\* the faces of the cycle that the known-face set does not hold
Unmatched(faces) == SelectSeq(faces, LAMBDA f : f.person \notin known_faces)

\* C17, as stated: a cycle whose motion magnitude is below the detection
\* threshold produces zero alerts.
C17_QuietCycleNoAlerts ==
    (Evaluated /\ cycle.motion.magnitude < motion_threshold)
        => cycle.alerts = <<>>

\* C17, amended: a cycle whose motion magnitude is below the detection
\* threshold produces no motion_detected alert, even when the magnitude is
\* above the escalation threshold; every alert of such a cycle is an
\* unknown_face alert for a face reported as not known, so a cycle that
\* reports no such face produces zero alerts.
C17_QuietCycleNoMotionAlert ==
    (Evaluated /\ cycle.motion.magnitude < motion_threshold)
        => /\ ~cycle.motion.detected
           /\ OfType(cycle.alerts, "motion_detected") = <<>>
           /\ \A i \in 1 .. Len(cycle.alerts) :
                 /\ cycle.alerts[i].type = "unknown_face"
                 /\ \E j \in 1 .. Len(cycle.faces) :
                       /\ ~cycle.faces[j].is_known
                       /\ cycle.faces[j].location = cycle.alerts[i].location
           /\ (\A j \in 1 .. Len(cycle.faces) : cycle.faces[j].is_known)
                 => (cycle.alerts = <<>> /\ cycle.sent = <<>>)

\* a cycle with alerts switched on whose magnitude is above the escalation
\* threshold and below the detection threshold, and no alert
C17_Witness ==
    /\ Evaluated
    /\ enable_alerts
    /\ cycle.motion.magnitude > EscalationThreshold
    /\ cycle.motion.magnitude < motion_threshold
    /\ cycle.person_count = 1
    /\ cycle.alerts = <<>>

\* C18, as stated: every cycle in which motion is detected and the magnitude
\* exceeds the escalation threshold emits exactly one motion_detected alert.
C18_EscalatedCycleAlerts ==
    (Evaluated /\ cycle.motion.detected
               /\ cycle.motion.magnitude > EscalationThreshold)
        => Len(OfType(cycle.alerts, "motion_detected")) = 1

\* C18, amended: with alerts switched on, every cycle that comes to its
\* security checks with motion detected and a magnitude above the escalation
\* threshold emits exactly one motion_detected alert, of severity medium,
\* carrying the magnitude and the person count of the cycle; a cycle
\* without detected motion above that threshold emits none.  Nothing is
\* held back because of the cycle before: each cycle's alerts are all added
\* to the events table, so N such cycles in a row add N motion_detected rows.
C18_OneMotionAlertPerCycle ==
    /\ [](  (Evaluated /\ enable_alerts) =>
               IF cycle.motion.detected
                  /\ cycle.motion.magnitude > EscalationThreshold
               THEN /\ Len(OfType(cycle.alerts, "motion_detected")) = 1
                    /\ cycle.alerts[1].type = "motion_detected"
                    /\ cycle.alerts[1].severity = "medium"
                    /\ cycle.alerts[1].motion_magnitude = cycle.motion.magnitude
                    /\ cycle.alerts[1].person_count = cycle.person_count
               ELSE OfType(cycle.alerts, "motion_detected") = <<>> )
    /\ [][ cycle'.op = "process_frame"
              => events' = events + Len(cycle'.alerts) ]_vars

\* the second of two cycles in a row that each emitted one motion_detected
\* alert and nothing else, the same alert both times
C18_Witness ==
    /\ Evaluated
    /\ updates = 2
    /\ events = 2
    /\ Len(cycle.alerts) = 1
    /\ cycle.alerts[1].type = "motion_detected"
    /\ cycle.alerts[1].motion_magnitude = 12
    /\ cycle.alerts[1].person_count = 1
    /\ \A level \in MotionLevels \ {12} : level <= EscalationThreshold
                                            \/ level > 12

\* C19: with alerts switched on, unknown_face alerts are emitted in a cycle
\* only if face evaluation is enabled and a person detection is present;
\* then there is exactly one critical unknown_face alert for each detected
\* face that is not in the known-face set, and none for a face that is.
C19_UnknownFaceAlerts ==
    (Evaluated /\ enable_alerts) =>
        LET face_alerts == OfType(cycle.alerts, "unknown_face")
            unmatched == Unmatched(cycle.faces)
        IN  /\ face_alerts # <<>>
                  => (enable_face_recognition /\ cycle.person_count > 0)
            /\ (enable_face_recognition /\ cycle.person_count > 0)
                  => /\ Len(face_alerts) = Len(unmatched)
                     /\ \A i \in 1 .. Len(face_alerts) :
                           /\ face_alerts[i].severity = "critical"
                           /\ face_alerts[i].location = unmatched[i].location

\* C20: every alert raised in a cycle is forwarded to the database exactly
\* once, to the email notifier exactly once when an alert email is
\* configured and not at all otherwise, and likewise to the Slack webhook;
\* nothing else is forwarded, and the events table grows by one row per
\* alert.
C20_AlertForwarding ==
    /\ [](  Evaluated =>
               /\ \A a \in Range(cycle.alerts) :
                     /\ Count(cycle.sent, Sent("database", a))
                           = Count(cycle.alerts, a)
                     /\ Count(cycle.sent, Sent("email", a))
                           = IF alert_email THEN Count(cycle.alerts, a) ELSE 0
                     /\ Count(cycle.sent, Sent("slack", a))
                           = IF slack_webhook THEN Count(cycle.alerts, a) ELSE 0
               /\ \A s \in Range(cycle.sent) :
                     /\ s.to \in {"database", "email", "slack"}
                     /\ s.alert \in Range(cycle.alerts) )
    /\ [][ cycle'.op = "process_frame"
              => events' = events + Len(cycle'.alerts) ]_vars

\* a cycle that raised a motion alert and an unknown-face alert with the
\* email notifier configured and the webhook not
C20_Witness ==
    /\ Evaluated
    /\ alert_email
    /\ ~slack_webhook
    /\ Len(cycle.alerts) = 2
    /\ cycle.alerts[1].type = "motion_detected"
    /\ cycle.alerts[2].type = "unknown_face"
    /\ Len(cycle.sent) = 4
    /\ events = 2

\* C21: a notification send that fails neither loses the alert nor stops
\* the cycle.  Every alert raised is in the database, and its database
\* entry comes before any send to a notifier; each configured notifier is
\* sent every alert whether or not the other notifier's send failed; and a
\* cycle in which a send failed still logs its alerts, updates the tracker
\* and counts its frame.
C21_NotifierFailureContained ==
    /\ [](  Evaluated =>
               /\ cycle.failed \subseteq Notifiers
               /\ \A a \in Range(cycle.alerts) :
                     /\ Sent("database", a) \in Range(cycle.sent)
                     /\ alert_email => Sent("email", a) \in Range(cycle.sent)
                     /\ slack_webhook => Sent("slack", a) \in Range(cycle.sent)
               /\ \A i, j \in 1 .. Len(cycle.sent) :
                     (/\ cycle.sent[i].alert = cycle.sent[j].alert
                      /\ cycle.sent[i].to = "database"
                      /\ cycle.sent[j].to # "database") => i < j )
    /\ [][ cycle'.failed # {} =>
              /\ cycle'.op = "process_frame"
              /\ events' = events + Len(cycle'.alerts)
              /\ updates' = updates + 1
              /\ frame_count' = frame_count + 1
              /\ call'.op = "update"
              /\ fps_counter' > 0 ]_vars

\* a cycle in which the email send failed for both of its alerts, and the
\* webhook was sent both all the same
C21_Witness ==
    /\ Evaluated
    /\ cycle.failed = {"email"}
    /\ slack_webhook
    /\ Len(cycle.alerts) = 2
    /\ Len(cycle.sent) = 6
    /\ events = 2
    /\ updates = 1

-----------------------------------------------------------------------------
(* Properties of detect_motion, under SpecMotion *)

\* a call of detect_motion that did not end in its except clause
MotionCall == cycle'.op = "detect_motion"

\* the pixels whose grey values differ by more than GreyStep
Differing(a, b, GreyStep) ==
    { i \in 1 .. Len(a) : a[i] - b[i] > GreyStep \/ b[i] - a[i] > GreyStep }

\* C22: the first detect_motion call after construction answers
\* (false, 0.0) for any frame and stores the frame as the previous frame;
\* every later successful call answers for the frame just given compared
\* with the previous frame, which the frame just given then replaces.
C22_ComparesWithPrevious ==
    [][ MotionCall =>
          /\ prev_frame' = CvtColor(frame')
          /\ prev_frame = NoFrame
                => (~cycle'.motion.detected /\ cycle'.motion.magnitude = Zero)
          /\ prev_frame # NoFrame
                => cycle'.motion.magnitude.num * Len(prev_frame)
                      = 100 * Cardinality(Differing(prev_frame', prev_frame,
                                                    DiffThreshold))
                        * cycle'.motion.magnitude.den
       ]_vars

\* a later call given an all-red frame when the frame stored before had the
\* same grey values: magnitude 0 of NPixels pixels, and the frame is stored
C22_Witness ==
    /\ cycle.op = "detect_motion"
    /\ prev_frame = CvtColor(frame)
    /\ frame = [i \in 1 .. NPixels |-> Red]
    /\ cycle.motion.magnitude.num = 0
    /\ cycle.motion.magnitude.den > 1

\* C23, as stated: for a frame identical to the stored previous frame the
\* magnitude is 0 and no motion is detected, whatever the threshold; the
\* magnitude is 100 times the fraction of pixels whose grey values differ
\* by more than 30, and lies between 0 and 100.
C23_IdenticalFramesNoMotion ==
    [][ (MotionCall /\ prev_frame # NoFrame) =>
          /\ prev_frame' = prev_frame
                => (cycle'.motion.magnitude.num = 0 /\ ~cycle'.motion.detected)
          /\ cycle'.motion.magnitude.num * Len(prev_frame)
                = 100 * Cardinality(Differing(prev_frame', prev_frame, 30))
                  * cycle'.motion.magnitude.den
          /\ cycle'.motion.magnitude.num >= 0
          /\ cycle'.motion.magnitude.num <= 100 * cycle'.motion.magnitude.den
       ]_vars

\* C23, amended: the same, with no motion detected for identical frames
\* whenever the configured threshold is not negative.
C23_IdenticalFramesMagnitudeZero ==
    [][ (MotionCall /\ prev_frame # NoFrame) =>
          /\ prev_frame' = prev_frame
                => /\ cycle'.motion.magnitude.num = 0
                   /\ motion_threshold >= 0 => ~cycle'.motion.detected
          /\ cycle'.motion.detected
                <=> cycle'.motion.magnitude.num
                       > motion_threshold * cycle'.motion.magnitude.den
          /\ cycle'.motion.magnitude.num * Len(prev_frame)
                = 100 * Cardinality(Differing(prev_frame', prev_frame, 30))
                  * cycle'.motion.magnitude.den
          /\ cycle'.motion.magnitude.num >= 0
          /\ cycle'.motion.magnitude.num <= 100 * cycle'.motion.magnitude.den
       ]_vars

\* a frame compared with a frame of the same grey values under threshold 0:
\* magnitude 0, no motion
C23_Witness ==
    /\ cycle.op = "detect_motion"
    /\ motion_threshold = 0
    /\ cycle.motion.magnitude.num = 0
    /\ cycle.motion.magnitude.den > 1
    /\ ~cycle.motion.detected
    /\ frame = [i \in 1 .. NPixels |-> Dim]

-----------------------------------------------------------------------------
(* Properties of the staged processing loop, under SpecPipeline and         *)
(* SpecPipelineFair *)

\* the main thread leaves the stage it is at
Leaves(stage) == main_pc = stage /\ main_pc' # stage

FaultCycle == view.inference = "fault"

\* C24: a fault of the detector's inference is no error of the cycle: the
\* detect stage hands on an empty detection list, so the person count is 0,
\* the except clause is not taken, the tracker is updated with the empty
\* list, the frame is published, and the loop reaches its next cycle.
C24_InferenceFaultContained ==
    /\ [][ /\ (Leaves("detect") /\ FaultCycle)
               => /\ main_pc' = "alerts"
                  /\ view'.person_detections = <<>>
                  /\ cycle'.person_count = 0
                  /\ cycle'.op = "stages"
           /\ (Leaves("alerts") /\ FaultCycle)
               => \A i \in 1 .. Len(cycle'.alerts) :
                     /\ cycle'.alerts[i].type = "motion_detected"
                     /\ cycle'.alerts[i].person_count = 0
           /\ (Leaves("update") /\ FaultCycle)
               => /\ call'.op = "update"
                  /\ call'.detections = <<>>
                  /\ frame_count' = frame_count + 1
           /\ (Leaves("publish") /\ FaultCycle)
               => /\ current_frame' = Share(frame)
                  /\ main_pc' = "loop"
                  /\ running'
         ]_vars
    /\ (main_pc = "detect" /\ FaultCycle)
          ~> (main_pc = "publish" /\ FaultCycle /\ call.op = "update")
    /\ (main_pc = "publish" /\ FaultCycle) ~> (main_pc = "process")

C24_Witness ==
    /\ main_pc = "publish"
    /\ FaultCycle
    /\ view.persons # <<>>
    /\ view.person_detections = <<>>
    /\ cycle.op = "stages"
    /\ cycle.person_count = 0
    /\ call.op = "update"
    /\ call.detections = <<>>
    /\ frame_count = 2
    /\ current_frame # NoFrame

\* C30: the stages of a cycle run in the order motion detection, object
\* detection with the person classification, alert evaluation, tracker
\* update, annotation, and only then is the frame published; each stage
\* alone changes what it owns, so the alerts carry the person count of the
\* frame at hand and are raised before the tracker has seen that frame.
C30_StagesInOrder ==
    [][ /\ main_pc' # main_pc
           => \/ main_pc = "loop" /\ main_pc' = "process"
              \/ main_pc = "process" /\ main_pc' = "detect"
              \/ main_pc = "detect" /\ main_pc' = "alerts"
              \/ main_pc = "detect" /\ main_pc' = "publish" /\ cycle'.op = "fault"
              \/ main_pc = "alerts" /\ main_pc' = "update"
              \/ main_pc = "update" /\ main_pc' = "annotate"
              \/ main_pc = "annotate" /\ main_pc' = "publish"
              \/ main_pc = "publish" /\ main_pc' = "loop"
        /\ prev_frame' # prev_frame => Leaves("process")
        /\ cycle'.motion # cycle.motion => (Leaves("process") \/ Leaves("publish")
                                            \/ cycle'.op = "fault")
        /\ view'.person_detections # view.person_detections
              => (Leaves("detect") \/ Leaves("publish"))
        /\ events' # events => Leaves("alerts")
        /\ Leaves("alerts")
              => /\ UNCHANGED <<an_vars, current_frame, frame, prev_frame>>
                 /\ cycle'.person_count = Len(view.person_detections)
                 /\ \A i \in 1 .. Len(cycle'.alerts) :
                       cycle'.alerts[i].type = "motion_detected"
                          => cycle'.alerts[i].person_count
                                = Len(view.person_detections)
        /\ <<frame_count, person_tracks, call>>' # <<frame_count, person_tracks, call>>
              => Leaves("update")
        /\ Leaves("update")
              => /\ call'.op = "update"
                 /\ call'.detections = view.person_detections
                 /\ frame_count' = frame_count + 1
                 /\ UNCHANGED <<events, current_frame>>
        /\ fps_counter' # fps_counter => Leaves("annotate")
        /\ current_frame' # current_frame
              => /\ Leaves("publish")
                 /\ current_frame' = Share(frame)
                 /\ \/ cycle.op = "fault"
                    \/ /\ cycle.op = "stages"
                       /\ call.op = "update"
                       /\ call.detections = view.person_detections
                       /\ fps_counter > 0
      ]_vars

C30_Witness ==
    /\ main_pc = "update"
    /\ Len(cycle.alerts) > 0
    /\ cycle.alerts[1].type = "motion_detected"
    /\ cycle.alerts[1].person_count = 1
    /\ Len(view.person_detections) = 1
    /\ frame_count = 1
    /\ events > 0
    /\ current_frame # NoFrame
    /\ current_frame.seq # frame.seq

\* C37: a cycle whose detection faults, or finds nobody, evicts every
\* active track.  A detect stage that faults hands on no person detections;
\* the update stage of a cycle without person detections calls update with
\* the empty list, after which no track is active and active_tracks is 0;
\* and every track an update creates, so that of a person seen again in a
\* later cycle, gets an identifier larger than every identifier given
\* before.
C37_EmptyCycleEvictsTracks ==
    [][ /\ (Leaves("detect") /\ FaultCycle)
              => (main_pc' = "alerts" /\ view'.person_detections = <<>>)
        /\ (Leaves("update") /\ view.person_detections = <<>>)
              => /\ call'.op = "update"
                 /\ call'.detections = <<>>
                 /\ DOMAIN person_tracks' = {}
                 /\ update_result'.active_tracks = 0
        /\ Leaves("update")
              => /\ \A id \in Ids(call'.created) :
                       \A old \in ever_issued' : id > old
                 /\ DOMAIN person_tracks = {}
                       => Len(call'.created) = Len(view.person_detections)
      ]_vars

\* the third cycle: the person of the first cycle, whose track 1 the empty
\* second cycle evicted, is seen again and is track 2
C37_Witness ==
    /\ main_pc = "annotate"
    /\ call.op = "update"
    /\ frame_count = 3
    /\ Len(view.person_detections) = 1
    /\ call.created = << <<0, 2>> >>
    /\ ever_issued = {1}
    /\ DOMAIN person_tracks = {2}
    /\ track_counter = 2

-----------------------------------------------------------------------------
(* Properties of the processed-frame counter, under SpecCounter *)

\* C35: no increment of the processed-frame counter is lost or torn when
\* /api/status is served beside the processing loop: every processed frame
\* is counted in exactly one FPS window.  The store that ends
\* self.fps_counter += 1 leaves the counter one above what it held, and the
\* count get_fps sets to 0 is the count it divided into the FPS it returns.
C35_NoIncrementLost ==
    [][ /\ (main_pc = "store" /\ main_pc' = "publish")
              => fps_counter' = fps_counter + 1
        /\ (fps_call.pc = "reset" /\ fps_call'.pc = "idle")
              => fps_counter = fps_call.fps.num
      ]_vars

=============================================================================
